---- MODULE Spec2Model ----
(***************************************************************************)
(* youtube_knowledge: the playlist pipeline (cli.py), its PlaylistState    *)
(* (models.py) and the StateManager that persists it (state.py).           *)
(*                                                                         *)
(* Spec     one playlist, repeated `process` runs, with the save's file    *)
(*          writes as separate steps and the run open to interruption.     *)
(* SpecLib  the PlaylistState / StateManager API called directly, on any   *)
(*          content of the state file.                                     *)
(***************************************************************************)
EXTENDS Integers, Sequences, FiniteSets, TLC

\* ------------------------------------------------------------------ bounds
MaxLen == 2          \* longest playlist returned by the playlist source
MaxRuns == 2         \* process runs in one behaviour
MaxOps == 3          \* API calls in one behaviour of SpecLib
MaxAttempts == 2     \* _process_single_video calls in one behaviour of SpecStage
MaxFaultyRuns == 1   \* SpecConverge: runs in which collaborators may fail
MaxGoodRuns == 2     \* SpecConverge: runs after that, in which none does
MaxCalls == 3        \* SpecResolve: process starts, saves and store resolutions

\* ------------------------------------------------------------- data values
None == "None"       \* Python's None where the other values are strings (error: str | None)
\* An optional value of another type (a PlaylistState, a transcript, a document):
\* Absent is Python's None, Some(x) is x.
Absent == <<>>
Some(x) == <<x>>
VideoIds == {"v1", "v2"}
Errors == {None, "", "Transcripts disabled"}     \* values of ProcessedVideo.error
PlaylistId == "PL1"
ErrTranscript == "Failed to retrieve transcript"
ErrTransform == "Failed to transform transcript"
ErrUpload == "Failed to upload to Gemini"

\* Python truthiness of a str | None value: None and "" are falsy.
Truthy(x) == x # None /\ x # ""

EmptyMap == [k \in {} |-> None]
Put(m, k, x) == [y \in (DOMAIN m) \cup {k} |-> IF y = k THEN x ELSE m[y]]
Del(m, k) == [y \in (DOMAIN m) \ {k} |-> m[y]]

\* VideoInfo of a playlist entry (models.py: from_yt_dlp).
VideoInfo(v) == [video_id |-> v, title |-> <<"title", v>>, url |-> <<"https://www.youtube.com/watch?v=", v>>]

\* ------------------------------------------------ transcript.py: formatting
Digit(d) == CASE d = 0 -> "0" [] d = 1 -> "1" [] d = 2 -> "2" [] d = 3 -> "3" [] d = 4 -> "4"
              [] d = 5 -> "5" [] d = 6 -> "6" [] d = 7 -> "7" [] d = 8 -> "8" [] d = 9 -> "9"

RECURSIVE Decimal(_)
Decimal(n) == IF n < 10 THEN <<Digit(n)>> ELSE Append(Decimal(n \div 10), Digit(n % 10))

\* f"{n:02d}": at least two digits, zero-padded.
Fmt02d(n) == IF n < 10 THEN <<"0", Digit(n)>> ELSE Decimal(n)

\* A start offset is a float: it is kept as a whole number of tenths of a second.
Seconds(whole, tenths) == 10 * whole + tenths

\* Faulty variant: the minutes are not reduced modulo the hour.
format_timestamp_minutes_of_all(seconds) ==
    LET hours == seconds \div Seconds(3600, 0)
        minutes == seconds \div Seconds(60, 0)
        secs == (seconds % Seconds(60, 0)) \div Seconds(1, 0)
    IN  IF hours > 0
        THEN Fmt02d(hours) \o <<":">> \o Fmt02d(minutes) \o <<":">> \o Fmt02d(secs)
        ELSE Fmt02d(minutes) \o <<":">> \o Fmt02d(secs)

\* _format_timestamp: int(seconds // 3600), int((seconds % 3600) // 60) and
\* int(seconds % 60) of a non-negative offset.
format_timestamp(seconds) ==
    LET hours == seconds \div Seconds(3600, 0)
        minutes == (seconds % Seconds(3600, 0)) \div Seconds(60, 0)
        secs == (seconds % Seconds(60, 0)) \div Seconds(1, 0)
    IN  IF hours > 0
        THEN Fmt02d(hours) \o <<":">> \o Fmt02d(minutes) \o <<":">> \o Fmt02d(secs)
        ELSE Fmt02d(minutes) \o <<":">> \o Fmt02d(secs)

FormatLine(entry) == <<"[">> \o format_timestamp(entry.start) \o <<"]", " ">> \o entry.text

RECURSIVE JoinLines(_)
JoinLines(lines) ==
    IF lines = <<>> THEN <<>>
    ELSE IF Len(lines) = 1 THEN lines[1]
    ELSE lines[1] \o <<"\n">> \o JoinLines(Tail(lines))

\* Faulty variant: the segments are rendered last to first.
format_transcript_last_first(transcript) ==
    JoinLines([k \in 1..Len(transcript) |-> FormatLine(transcript[Len(transcript) + 1 - k])])

format_transcript(transcript) == JoinLines([k \in 1..Len(transcript) |-> FormatLine(transcript[k])])

\* What the transcript source can give for a video: absent, no segments, segments.
SampleTranscript == << [text |-> <<"H", "i">>, start |-> Seconds(0, 0), duration |-> 2],
                       [text |-> <<"y", "o">>, start |-> Seconds(75, 5), duration |-> 3] >>
TranscriptResults == {Absent, Some(<<>>), Some(SampleTranscript)}

\* What transform() can give: absent, or the header plus the generated text.
SampleDocument == <<"-", "-", "-", "\n", "d", "o", "c">>
TransformResults == {Absent, Some(SampleDocument)}

\* What upload_document() can give: absent, or the document's resource name.
UploadResults == {None, "documents/d"}

\* ------------------------------------------------- the three stage clients
\* What a call to a collaborator's API does: it raises, or it returns a value. A
\* collaborator the pipeline does not get to is NotCalled.
Raises(exc) == [kind |-> "raises", exc |-> exc]
Gives(x) == [kind |-> "returns", value |-> x]
NotCalled == [kind |-> "not_called"]

\* What a client method does: it returns (Absent or None for Python's None), or an
\* exception escapes it.
Returned(x) == [ret |-> x, raised |-> None]
Raised(e) == [ret |-> Absent, raised |-> e]

\* self.api.fetch(video_id, languages=...): an exception, or the snippets.
FetchOutcomes ==
    {Raises(e) : e \in {"TranscriptsDisabled", "NoTranscriptFound", "VideoUnavailable", "Exception"}}
        \cup {Gives(<<>>), Gives(SampleTranscript)}

\* Faulty variant: only the three named exceptions are caught.
get_transcript_named_only(fetched) ==
    IF fetched.kind = "raises"
    THEN IF fetched.exc = "Exception" THEN Raised(fetched.exc) ELSE Returned(Absent)
    ELSE Returned(Some(fetched.value))

get_transcript(fetched) ==
    IF fetched.kind = "raises" THEN Returned(Absent)
    ELSE Returned(Some([k \in 1..Len(fetched.value) |->
                          [text |-> fetched.value[k].text, start |-> fetched.value[k].start,
                           duration |-> fetched.value[k].duration]]))

\* client.models.generate_content(...): an exception, no response, or a response
\* whose text is None, empty, or the generated text.
GenerateOutcomes ==
    {Raises("Exception"), Gives(Absent)}
        \cup {Gives(Some([text |-> t])) : t \in {Absent, Some(<<>>), Some(<<"d", "o", "c">>)}}

MetadataHeader == <<"-", "-", "-", "\n">>
add_metadata_header(video, content) == MetadataHeader \o content

\* Faulty variant: an empty text is given its header and returned.
transform_accepts_empty(video, generated) ==
    IF generated.kind = "raises" THEN Returned(Absent)
    ELSE IF generated.value = Absent THEN Returned(Absent)
    ELSE IF generated.value[1].text = Absent THEN Returned(Absent)
    ELSE Returned(Some(add_metadata_header(video, generated.value[1].text[1])))

transform(video, generated) ==
    IF generated.kind = "raises" THEN Returned(Absent)
    ELSE IF generated.value = Absent THEN Returned(Absent)
    ELSE IF generated.value[1].text \in {Absent, Some(<<>>)} THEN Returned(Absent)
    ELSE Returned(Some(add_metadata_header(video, generated.value[1].text[1])))

\* client.files.list() searched for the display name: an exception, no match (None),
\* or the name of the file that matches.
ListOutcomes == {Raises("Exception"), Gives(None), Gives("files/f")}

\* upload_to_file_search_store(...) and the polling that follows: an exception, no
\* operation object, or a finished operation with no response, a response with no
\* document_name attribute, or a response with a document_name.
UploadOutcomes ==
    {Raises("Exception"), Gives(Absent), Gives(Some([response |-> Absent])),
     Gives(Some([response |-> Some([parent |-> "stores/s"])]))}
        \cup {Gives(Some([response |-> Some([document_name |-> n])])) : n \in {None, "", "documents/d"}}

check_existing_file(listed) == IF listed.kind = "raises" THEN None ELSE listed.value

\* Faulty variant: a finished operation counts as an upload, with or without a name.
upload_document_any_response(listed, uploaded) ==
    IF Truthy(check_existing_file(listed)) THEN Returned(check_existing_file(listed))
    ELSE IF uploaded.kind = "raises" THEN Returned(None)
    ELSE IF uploaded.value = Absent THEN Returned(None)
    ELSE Returned("documents/d")

upload_document(listed, uploaded) ==
    LET existing == check_existing_file(listed) IN
    IF Truthy(existing) THEN Returned(existing)
    ELSE IF uploaded.kind = "raises" THEN Returned(None)
    ELSE IF uploaded.value = Absent THEN Returned(None)        \* AttributeError on .done
    ELSE LET response == uploaded.value[1].response IN
         IF /\ response # Absent
            /\ "document_name" \in DOMAIN response[1]
            /\ Truthy(response[1].document_name)
         THEN Returned(response[1].document_name)
         ELSE Returned(None)                                    \* raise Exception(...), caught

\* uploader.py, get_or_create_file_search_store: the index's stores are a sequence of
\* records, in the order file_search_stores.list() gives them; list_ok and create_ok
\* say whether the two API calls return. The result carries the stores afterwards.
StoreName(n) == <<"fileSearchStores/", n>>
NewStore(index, store_name) == [name |-> StoreName(Len(index) + 1), display_name |-> store_name]

\* Faulty variant: a store is created without looking for an existing one.
get_or_create_file_search_store_always_creates(index, store_name, list_ok, create_ok) ==
    IF ~list_ok \/ ~create_ok THEN [ret |-> Absent, raised |-> "Exception", stores |-> index]
    ELSE [ret |-> Some(NewStore(index, store_name).name), raised |-> None,
          stores |-> Append(index, NewStore(index, store_name))]

get_or_create_file_search_store(index, store_name, list_ok, create_ok) ==
    IF ~list_ok THEN [ret |-> Absent, raised |-> "Exception", stores |-> index]
    ELSE IF \E k \in 1..Len(index) : index[k].display_name = store_name
    THEN LET k == CHOOSE k \in 1..Len(index) :
                    /\ index[k].display_name = store_name
                    /\ \A j \in 1..(k - 1) : index[j].display_name # store_name
         IN  [ret |-> Some(index[k].name), raised |-> None, stores |-> index]
    ELSE IF ~create_ok THEN [ret |-> Absent, raised |-> "Exception", stores |-> index]
    ELSE [ret |-> Some(NewStore(index, store_name).name), raised |-> None,
          stores |-> Append(index, NewStore(index, store_name))]

\* uploader.py, upload_document step by step. The index holds the documents of the
\* file search store and the files client.files.list() gives; both are sequences of
\* records with a display_name and a resource name.
EmptyIndex == [documents |-> <<>>, files |-> <<>>]
DocumentName(n) == <<"documents/", n>>
FileName(n) == <<"files/", n>>

\* cli.py:70, display_name = f"youtube-{video.video_id}".
document_display_name(video_id) == <<"youtube-", video_id>>

\* _check_existing_file: the name of the first listed file with the display name, and
\* nothing when there is none or when the listing raises.
find_existing_file(files, display_name, list_ok) ==
    IF ~list_ok THEN Absent
    ELSE IF \E k \in 1..Len(files) : files[k].display_name = display_name
    THEN LET k == CHOOSE k \in 1..Len(files) :
                    /\ files[k].display_name = display_name
                    /\ \A j \in 1..(k - 1) : files[j].display_name # display_name
         IN  Some(files[k].name)
    ELSE Absent

\* What upload_to_file_search_store and operations.get can answer: an exception, an
\* operation that is not done, one that is done without a document name, one that is
\* done with the name of the document it made.
OperationOutcomes == {"raises", "pending", "done_unnamed", "done"}

\* The operation object of an answer, and the index after it: a finished upload adds a
\* document to the store; as_file says whether the Files API lists it too.
OperationOf(ix, answer) ==
    [done |-> answer # "pending",
     document_name |-> IF answer = "done" THEN Some(DocumentName(Len(ix.documents) + 1)) ELSE Absent]

IndexAfter(ix, answer, display_name, as_file) ==
    IF answer # "done" THEN ix
    ELSE [documents |-> Append(ix.documents, [display_name |-> display_name,
                                              name |-> DocumentName(Len(ix.documents) + 1)]),
          files |-> IF as_file
                    THEN Append(ix.files, [display_name |-> display_name,
                                           name |-> FileName(Len(ix.files) + 1)])
                    ELSE ix.files]

\* The test of `while not operation.done`.
\* Faulty variant: the loop is never entered.
poll_again_never(operation) == FALSE

poll_again(operation) == ~operation.done

\* uploader.py:114-116, Path(tmp_path).unlink(missing_ok=True) in the finally clause.
unlink(tmp) == "removed"

\* uploader.py:103-112, the handle taken from a finished operation: its document_name,
\* or nothing (the exception raised there is caught at 118-120).
document_name_of(operation) == operation.document_name

\* ----------------------------------------------------------- models.py
ProcessedVideo_create(video_id, title, gemini_file_name, transcript_length, transformed_length, error, utcnow) ==
    [video_id |-> video_id, title |-> title, processed_at |-> utcnow,
     gemini_file_name |-> gemini_file_name, transcript_length |-> transcript_length,
     transformed_length |-> transformed_length, error |-> error]

PlaylistState_create(playlist_id, file_search_store_name, utcnow) ==
    [playlist_id |-> playlist_id, file_search_store_name |-> file_search_store_name,
     created_at |-> utcnow, last_updated |-> utcnow,
     processed_videos |-> EmptyMap, failed_videos |-> EmptyMap]

\* Faulty variant: any record counts as processed, whatever its error.
is_processed_any_record(st, video_id) == video_id \in DOMAIN st.processed_videos

is_processed(st, video_id) ==
    video_id \in DOMAIN st.processed_videos /\ ~Truthy(st.processed_videos[video_id].error)

\* Faulty variant: the record is not stored.
add_processed_not_stored(st, video, utcnow) == [st EXCEPT !.last_updated = utcnow]

\* Faulty variant: the ledger entry is never deleted.
add_processed_keeps_ledger(st, video, utcnow) ==
    [st EXCEPT !.processed_videos = Put(@, video.video_id, video), !.last_updated = utcnow]

\* Faulty variant: the ledger entry is deleted whatever the record's error.
add_processed_clears_ledger(st, video, utcnow) ==
    [st EXCEPT !.processed_videos = Put(@, video.video_id, video),
               !.last_updated = utcnow,
               !.failed_videos = IF video.video_id \in DOMAIN @ THEN Del(@, video.video_id) ELSE @]

add_processed(st, video, utcnow) ==
    [st EXCEPT !.processed_videos = Put(@, video.video_id, video),
               !.last_updated = utcnow,
               !.failed_videos = IF Truthy(video.error) /\ video.video_id \in DOMAIN @
                                 THEN Del(@, video.video_id) ELSE @]

\* Faulty variant: the failure is not entered in the ledger.
add_failed_not_recorded(st, video_id, error, utcnow) == [st EXCEPT !.last_updated = utcnow]

\* Faulty variant: the video's record is taken out of the processed map.
add_failed_forgets_record(st, video_id, error, utcnow) ==
    [st EXCEPT !.failed_videos = Put(@, video_id, error), !.last_updated = utcnow,
               !.processed_videos = Del(@, video_id)]

\* Faulty variant: last_updated is not refreshed.
add_failed_keeps_timestamp(st, video_id, error, utcnow) ==
    [st EXCEPT !.failed_videos = Put(@, video_id, error)]

add_failed(st, video_id, error, utcnow) ==
    [st EXCEPT !.failed_videos = Put(@, video_id, error), !.last_updated = utcnow]

\* ------------------------------------------------------------- state.py
\* A state file is absent, or holds text: a proper prefix of a JSON document
\* (nothing at all just after open(path, "w")), or a whole JSON document.
FileAbsent == [kind |-> "absent"]
FileTruncated == [kind |-> "truncated"]
FileJson(data) == [kind |-> "json", data |-> data]

ProcessedVideoFields == {"video_id", "title", "processed_at", "gemini_file_name",
                         "transcript_length", "transformed_length", "error"}
ProcessedVideoRequired == ProcessedVideoFields \ {"error"}
RequiredKeys == {"playlist_id", "file_search_store_name", "created_at", "last_updated"}

\* save(): the dict handed to json.dump.
to_json(st) ==
    [playlist_id |-> st.playlist_id,
     file_search_store_name |-> st.file_search_store_name,
     created_at |-> st.created_at,
     last_updated |-> st.last_updated,
     processed_videos |->
        [video_id \in DOMAIN st.processed_videos |->
            LET video == st.processed_videos[video_id]
            IN  [video_id |-> video.video_id, title |-> video.title,
                 processed_at |-> video.processed_at,
                 gemini_file_name |-> video.gemini_file_name,
                 transcript_length |-> video.transcript_length,
                 transformed_length |-> video.transformed_length,
                 error |-> video.error]],
     failed_videos |-> st.failed_videos]

\* ProcessedVideo(**video_data): TypeError on a missing required or an unexpected keyword.
EntryOk(video_data) ==
    /\ ProcessedVideoRequired \subseteq DOMAIN video_data
    /\ DOMAIN video_data \subseteq ProcessedVideoFields

\* Faulty variant: the entry's error is not read.
ProcessedVideo_kw_without_error(video_data) ==
    [f \in ProcessedVideoFields |->
        IF f \in DOMAIN video_data /\ f # "error" THEN video_data[f] ELSE None]

ProcessedVideo_kw(video_data) ==
    [f \in ProcessedVideoFields |-> IF f \in DOMAIN video_data THEN video_data[f] ELSE None]

DataGet(data, key) == IF key \in DOMAIN data THEN data[key] ELSE EmptyMap

load(f) ==
    IF f.kind = "absent" THEN Returned(Absent)
    ELSE IF f.kind # "json" THEN Returned(Absent)                    \* json.JSONDecodeError
    ELSE LET data == f.data
             entries == DataGet(data, "processed_videos")
         IN  IF \E video_id \in DOMAIN entries : ~EntryOk(entries[video_id])
             THEN Raised("TypeError")
             ELSE IF ~(RequiredKeys \subseteq DOMAIN data) THEN Returned(Absent)   \* KeyError
             ELSE Returned(Some(
                    [playlist_id |-> data.playlist_id,
                     file_search_store_name |-> data.file_search_store_name,
                     created_at |-> data.created_at,
                     last_updated |-> data.last_updated,
                     processed_videos |-> [video_id \in DOMAIN entries |-> ProcessedVideo_kw(entries[video_id])],
                     failed_videos |-> DataGet(data, "failed_videos")]))

\* Faulty variant: the loaded state is not returned.
get_or_create_always_fresh(f, playlist_id, file_search_store_name, utcnow) ==
    LET r == load(f)
    IN  IF r.raised # None THEN r
        ELSE Returned(Some(PlaylistState_create(playlist_id, file_search_store_name, utcnow)))

get_or_create(f, playlist_id, file_search_store_name, utcnow) ==
    LET r == load(f)
    IN  IF r.raised # None THEN r
        ELSE IF r.ret # Absent THEN r
        ELSE Returned(Some(PlaylistState_create(playlist_id, file_search_store_name, utcnow)))

\* _get_state_path: the file is named by the playlist_id text as it is given. Only
\* the state directory itself is ever created (state.py:20), so a playlist_id with a
\* "/" in it names a path in a directory that does not exist.
\* Faulty variant: every playlist gets the same file.
get_state_path_of_any(playlist_id) == <<"state", ".json">>

get_state_path(playlist_id) == playlist_id \o <<".json">>
PathInMissingDirectory(path) == \E k \in 1..Len(path) : path[k] = "/"

\* list_playlists(): the files of the directory are loaded in the order glob gives
\* them; a state that loads is appended, a None is passed over, an exception ends
\* the call.
RECURSIVE list_playlists_from(_, _, _)
list_playlists_from(dir, order, playlists) ==
    IF order = <<>> THEN Returned(playlists)
    ELSE LET r == load(dir[Head(order)])
         IN  IF r.raised # None THEN [ret |-> <<>>, raised |-> r.raised]
             ELSE list_playlists_from(dir, Tail(order),
                                      IF r.ret # Absent THEN Append(playlists, r.ret[1]) ELSE playlists)

list_playlists(dir, order) == list_playlists_from(dir, order, <<>>)

\* save(): open(state_path, "w") empties the file; json.dump then writes the
\* document piece by piece, and the file holds all of it once the with block closes it.
save_open(f) == FileTruncated
\* Faulty variant: the document is written without the processed records.
save_dump_drops_records(st) == FileJson(to_json([st EXCEPT !.processed_videos = EmptyMap]))

save_dump(st) == FileJson(to_json(st))

\* ---------------------------------------------------------------- cli.py
\* _process_single_video up to its state.save call: the stage calls made, the
\* mutated state object, whether the path taken calls state.save, and the value
\* returned after it. transcript, transformed and file_name are what the three
\* stage clients give.
\* Faulty variant: the failure path returns without saving.
record_failure_not_saved(state_obj, video_id, error, stage_calls, outcome, utcnow) ==
    [state |-> add_failed(state_obj, video_id, error, utcnow), calls |-> stage_calls,
     success |-> FALSE, save |-> FALSE, outcome |-> outcome]

\* The block repeated at each failure point (cli.py:51-54, 63-66, 92-95):
\* add_failed, state.save, return (False, "failed").
record_failure(state_obj, video_id, error, stage_calls, outcome, utcnow) ==
    [state |-> add_failed(state_obj, video_id, error, utcnow), calls |-> stage_calls,
     success |-> FALSE, save |-> TRUE, outcome |-> outcome]

\* Faulty variant: the record is written whatever upload_document returned.
process_single_video_unchecked_upload(video, state_obj, transcript, transformed, file_name, utcnow) ==
    LET id == video.video_id
        c1 == << <<"transcript", id>> >>
        c2 == << <<"transcript", id>>, <<"rewrite", id>> >>
        c3 == << <<"transcript", id>>, <<"rewrite", id>>, <<"upload", id>> >>
    IN
    IF transcript = Absent \/ transcript = Some(<<>>)
    THEN record_failure(state_obj, id, ErrTranscript, c1, "transcript", utcnow)
    ELSE IF transformed = Absent \/ transformed = Some(<<>>)
    THEN record_failure(state_obj, id, ErrTransform, c2, "transform", utcnow)
    ELSE [state |-> add_processed(state_obj,
                        ProcessedVideo_create(id, video.title, <<"youtube-", id>>,
                                              Len(format_transcript(transcript[1])),
                                              Len(transformed[1]), None, utcnow),
                        utcnow),
          calls |-> c3, success |-> TRUE, save |-> TRUE,
          outcome |-> IF Truthy(file_name) THEN "processed" ELSE "upload"]

process_single_video(video, state_obj, transcript, transformed, file_name, utcnow) ==
    LET id == video.video_id
        c1 == << <<"transcript", id>> >>
        c2 == << <<"transcript", id>>, <<"rewrite", id>> >>
        c3 == << <<"transcript", id>>, <<"rewrite", id>>, <<"upload", id>> >>
    IN
    IF transcript = Absent \/ transcript = Some(<<>>)
    THEN record_failure(state_obj, id, ErrTranscript, c1, "transcript", utcnow)
    ELSE LET formatted_transcript == format_transcript(transcript[1]) IN
    IF transformed = Absent \/ transformed = Some(<<>>)
    THEN record_failure(state_obj, id, ErrTransform, c2, "transform", utcnow)
    ELSE LET display_name == <<"youtube-", id>> IN
    IF Truthy(file_name)
    THEN [state |-> add_processed(state_obj,
                        ProcessedVideo_create(id, video.title, display_name,
                                              Len(formatted_transcript), Len(transformed[1]),
                                              None, utcnow),
                        utcnow),
          calls |-> c3, success |-> TRUE, save |-> TRUE, outcome |-> "processed"]
    ELSE record_failure(state_obj, id, ErrUpload, c3, "upload", utcnow)

\* A value a stage client returns is usable when it is neither None nor empty.
Usable(x) == x.raised = None /\ x.ret \notin {Absent, Some(<<>>)}

\* _process_single_video with its three clients, cli.py:49-76: each client's return
\* value is computed from what its collaborator does, and a client is called only
\* if the stages before it gave something usable.
run_stages(video, state_obj, fetched, generated, listed, uploaded, utcnow) ==
    LET transcript == get_transcript(fetched)
        transformed == IF Usable(transcript) THEN transform(video, generated) ELSE Returned(Absent)
        file_name == IF Usable(transcript) /\ Usable(transformed)
                     THEN upload_document(listed, uploaded) ELSE Returned(None)
    IN  [raised |-> IF transcript.raised # None THEN transcript.raised
                    ELSE IF transformed.raised # None THEN transformed.raised
                    ELSE file_name.raised,
         result |-> process_single_video(video, state_obj, transcript.ret, transformed.ret,
                                         file_name.ret, utcnow)]

\* What each collaborator can do in an attempt: one that is not reached is NotCalled.
GenerateReached(fetched) ==
    IF Usable(get_transcript(fetched)) THEN GenerateOutcomes ELSE {NotCalled}
ListReached(video, fetched, generated) ==
    IF Usable(get_transcript(fetched)) /\ generated.kind # "not_called" /\ Usable(transform(video, generated))
    THEN ListOutcomes ELSE {NotCalled}
UploadReached(listed) ==
    IF listed.kind # "not_called" /\ ~Truthy(check_existing_file(listed))
    THEN UploadOutcomes ELSE {NotCalled}

\* Faulty variant: the flag is not looked at.
should_skip_whatever_the_flag(skip, state_obj, video_id) == is_processed(state_obj, video_id)

\* Faulty variant: the test is inverted.
should_skip_inverted(skip, state_obj, video_id) == skip /\ ~is_processed(state_obj, video_id)

\* The loop's test at cli.py:196.
should_skip(skip, state_obj, video_id) == skip /\ is_processed(state_obj, video_id)

\* process from the fetch to the loop, cli.py:155-180 and 225-227: how far it gets
\* (the fetch, the store resolution, the state) and where it goes from there, given
\* what fetch_videos, get_or_create_file_search_store and get_or_create do.
\* Faulty variant: a playlist without videos is not told apart.
process_until_loop_without_empty_test(fetched, resolved, got) ==
    IF fetched.raised # None THEN [outcome |-> "exit1", steps |-> <<"fetch">>]
    ELSE IF resolved.raised # None THEN [outcome |-> "exit1", steps |-> <<"fetch", "store">>]
    ELSE IF got.raised # None THEN [outcome |-> "exit1", steps |-> <<"fetch", "store", "state">>]
    ELSE [outcome |-> "loop", steps |-> <<"fetch", "store", "state">>]

process_until_loop(fetched, resolved, got) ==
    IF fetched.raised # None THEN [outcome |-> "exit1", steps |-> <<"fetch">>]
    ELSE IF fetched.ret = <<>> THEN [outcome |-> "no_videos", steps |-> <<"fetch">>]
    ELSE IF resolved.raised # None THEN [outcome |-> "exit1", steps |-> <<"fetch", "store">>]
    ELSE IF got.raised # None THEN [outcome |-> "exit1", steps |-> <<"fetch", "store", "state">>]
    ELSE [outcome |-> "loop", steps |-> <<"fetch", "store", "state">>]

\* The store a playlist is bound to when no --store-name is given.
default_store(playlist_id) == <<"youtube-", playlist_id>>

\* ------------------------------------------------------------ playlist.py
\* The --playlist-id argument is text, kept here as the sequence of its pieces:
\* the pieces "http", "list=", "&" and "/" are the ones the code looks for.
UrlPrefix == <<"http", "s:", "/", "/", "www.youtube.com", "/", "playlist?", "list=">>
Contains(text, piece) == \E k \in 1..Len(text) : text[k] = piece

\* text.split(sep)
RECURSIVE Split(_, _)
Split(text, sep) ==
    IF ~Contains(text, sep) THEN <<text>>
    ELSE LET k == CHOOSE k \in 1..Len(text) : text[k] = sep /\ \A j \in 1..(k - 1) : text[j] # sep
         IN  <<SubSeq(text, 1, k - 1)>> \o Split(SubSeq(text, k + 1, Len(text)), sep)

get_playlist_url(playlist_id) ==
    IF Len(playlist_id) > 0 /\ playlist_id[1] = "http" THEN playlist_id
    ELSE UrlPrefix \o (IF Contains(playlist_id, "list=")
                       THEN Split(Split(playlist_id, "list=")[2], "&")[1] ELSE playlist_id)

\* The forms in which a playlist can be named on the command line.
BareId(id) == <<id>>
Fragment(id) == <<"list=", id, "&", "index=1", "&", "t=5s">>
WatchFragment(id) == <<"watch?v=a", "&", "list=", id, "&", "index=1">>
FullUrl(id) == UrlPrefix \o <<id>>
FullUrlWithParameters(id) == UrlPrefix \o <<id, "&", "index=1">>
WatchUrl(id) == <<"http", "s:", "/", "/", "www.youtube.com", "/", "watch?v=a", "&", "list=", id, "&", "index=1">>
PlaylistForms(id) == {BareId(id), Fragment(id), WatchFragment(id), FullUrl(id),
                      FullUrlWithParameters(id), WatchUrl(id)}

\* ydl.extract_info(playlist_url, download=False): an exception, nothing, or the
\* playlist's information with its entries; an entry is None for a deleted or private
\* video.
EntryLists == {<<>>, <<Absent>>, <<Some("v1"), Absent, Some("v2")>>}
ExtractOutcomes == {Raises("DownloadError"), Gives(Absent)} \cup {Gives(Some([entries |-> e])) : e \in EntryLists}

\* Faulty variant: no information is taken for a playlist without videos.
fetch_videos_no_info_is_empty(extracted) ==
    IF extracted.kind = "raises" THEN Raised("Exception")
    ELSE IF extracted.value = Absent THEN Returned(<<>>)
    ELSE LET entries == extracted.value[1].entries
             kept == SelectSeq(entries, LAMBDA entry : entry # Absent)
         IN  Returned([k \in 1..Len(kept) |-> VideoInfo(kept[k][1])])

fetch_videos(extracted) ==
    IF extracted.kind = "raises" THEN Raised("Exception")
    ELSE IF extracted.value = Absent THEN Raised("Exception")     \* ValueError, wrapped
    ELSE LET entries == extracted.value[1].entries
             kept == SelectSeq(entries, LAMBDA entry : entry # Absent)
         IN  Returned([k \in 1..Len(kept) |-> VideoInfo(kept[k][1])])

\* ------------------------------------------------------------------ state
VARIABLES
    videos,            \* what fetch_videos returns for the playlist
    file,              \* the playlist's state file
    state,             \* the run's PlaylistState object: Some(state), or Absent outside a run
    pc,                \* where the run is
    i,                 \* 1-based index of the loop's next video
    skip_existing,     \* the run's --skip-existing / --reprocess flag
    processed_count, skipped_count, failed_count,
    ret,               \* success value _process_single_video is about to return
    calls,             \* stage calls of the run so far, in order
    log,               \* per video reached in the run: its id and what happened to it
    fresh,             \* the run started from a state get_or_create had to create
    prev,              \* the previous run's log, if it started fresh and ran to its summary
    run,               \* runs started
    now,               \* the clock read by datetime.utcnow(): it moves on between runs
    op,                \* SpecLib: the last API call, its arguments and result
    nops,              \* SpecLib: API calls made
    state_dir,         \* SpecDir: the state directory, file stem |-> file content
    stores,            \* SpecResolve: the index's file search stores
    index,             \* SpecUpload: a store's documents, and the Files API's files
    runs               \* SpecRace: the process runs under way at once, each with its own state

vars == <<videos, file, state, pc, i, skip_existing, processed_count, skipped_count,
          failed_count, ret, calls, log, fresh, prev, run, now, op, nops, state_dir, stores,
          index, runs>>
libvars == <<op, nops, state_dir, stores, index, runs>>

Stopped == {"idle", "done", "no_videos", "exit1", "killed"}
Playlists == UNION {[1..n -> VideoIds] : n \in 0..MaxLen}
NoRun == [fresh_done |-> FALSE, log |-> <<>>]

\* A state file left by earlier use of the library: one record that carries an error.
SeedRecord(v, error) == ProcessedVideo_create(v, <<"title", v>>, <<"youtube-", v>>, 0, 0, error, 0)
SeedStates == {add_processed(PlaylistState_create(PlaylistId, default_store(PlaylistId), 0), SeedRecord(v, e), 0) :
                 v \in VideoIds, e \in Errors \ {None}}
SeedFiles == {FileAbsent} \cup {save_dump(s) : s \in SeedStates}

Init ==
    /\ videos \in Playlists
    /\ file \in SeedFiles
    /\ state = Absent
    /\ pc = "idle"
    /\ i = 0
    /\ skip_existing = TRUE
    /\ processed_count = 0 /\ skipped_count = 0 /\ failed_count = 0
    /\ ret = FALSE
    /\ calls = <<>>
    /\ log = <<>>
    /\ fresh = FALSE
    /\ prev = NoRun
    /\ run = 0
    /\ now = 0
    /\ op = [name |-> "none"]
    /\ nops = 0
    /\ state_dir = EmptyMap
    /\ stores = <<>>
    /\ index = EmptyIndex
    /\ runs = <<>>

\* process(), cli.py:146-180: fetch the playlist, resolve the store, get or create the
\* state, zero the counters. fetch_ok and store_ok say whether those calls raise.
BeginRun(skip, fetch_ok, store_ok) ==
    LET utcnow == now + 1 IN
    /\ pc \in Stopped
    /\ run' = run + 1
    /\ now' = utcnow
    /\ skip_existing' = skip
    /\ prev' = IF pc = "done" /\ fresh THEN [fresh_done |-> TRUE, log |-> log] ELSE NoRun
    /\ calls' = <<>>
    /\ log' = <<>>
    /\ ret' = FALSE
    /\ processed_count' = 0 /\ skipped_count' = 0 /\ failed_count' = 0
    /\ LET r == get_or_create(file, PlaylistId, default_store(PlaylistId), utcnow) IN
       IF ~fetch_ok THEN pc' = "exit1" /\ state' = Absent /\ fresh' = FALSE /\ i' = 0
       ELSE IF videos = <<>> THEN pc' = "no_videos" /\ state' = Absent /\ fresh' = FALSE /\ i' = 0
       ELSE IF ~store_ok \/ r.raised # None THEN pc' = "exit1" /\ state' = Absent /\ fresh' = FALSE /\ i' = 0
       ELSE pc' = "loop" /\ state' = r.ret /\ fresh' = (load(file).ret = Absent) /\ i' = 1
    /\ UNCHANGED <<videos, file, libvars>>

StartRun(skip, fetch_ok, store_ok) == run < MaxRuns /\ BeginRun(skip, fetch_ok, store_ok)

\* The loop body when the video is skipped, cli.py:196-200.
SkipVideo ==
    /\ pc = "loop" /\ i <= Len(videos)
    /\ should_skip(skip_existing, state[1], videos[i])
    /\ skipped_count' = skipped_count + 1
    /\ log' = Append(log, [v |-> videos[i], outcome |-> "skipped"])
    /\ i' = i + 1
    /\ UNCHANGED <<videos, file, state, pc, skip_existing, processed_count, failed_count,
                   ret, calls, fresh, prev, run, now, libvars>>

\* The loop body otherwise, cli.py:202-213, up to save()'s open(state_path, "w"),
\* which raises (save_ok false) or leaves the file empty.
ProcessVideo(transcript, transformed, file_name, save_ok) ==
    /\ pc = "loop" /\ i <= Len(videos)
    /\ ~should_skip(skip_existing, state[1], videos[i])
    /\ LET r == process_single_video(VideoInfo(videos[i]), state[1], transcript, transformed, file_name, now) IN
        /\ state' = Some(r.state)
        /\ calls' = calls \o r.calls
        /\ ret' = r.success
        /\ log' = Append(log, [v |-> videos[i], outcome |-> r.outcome])
        /\ IF ~r.save
           THEN /\ file' = file /\ pc' = "loop" /\ i' = i + 1
                /\ processed_count' = IF r.success THEN processed_count + 1 ELSE processed_count
                /\ failed_count' = IF r.success THEN failed_count ELSE failed_count + 1
           ELSE /\ IF save_ok THEN file' = save_open(file) /\ pc' = "save"
                              ELSE file' = file /\ pc' = "exit1"
                /\ UNCHANGED <<i, processed_count, failed_count>>
    /\ UNCHANGED <<videos, skip_existing, skipped_count, fresh, prev, run, now, libvars>>

\* Faulty variant: a failed video is counted as processed too.
SaveClose_counts_twice ==
    /\ pc = "save"
    /\ file' = save_dump(state[1])
    /\ processed_count' = processed_count + 1
    /\ failed_count' = IF ret THEN failed_count ELSE failed_count + 1
    /\ i' = i + 1
    /\ pc' = "loop"
    /\ UNCHANGED <<videos, state, skip_existing, skipped_count, ret, calls, log, fresh,
                   prev, run, now, libvars>>

\* Faulty variant: the loop does not move on to the next video.
SaveClose_same_video ==
    /\ pc = "save"
    /\ file' = save_dump(state[1])
    /\ processed_count' = IF ret THEN processed_count + 1 ELSE processed_count
    /\ failed_count' = IF ret THEN failed_count ELSE failed_count + 1
    /\ pc' = "loop"
    /\ UNCHANGED <<videos, state, i, skip_existing, skipped_count, ret, calls, log, fresh,
                   prev, run, now, libvars>>

\* The document is complete and closed; _process_single_video returns and the loop
\* counts the result, cli.py:215-220.
SaveClose ==
    /\ pc = "save"
    /\ file' = save_dump(state[1])
    /\ processed_count' = IF ret THEN processed_count + 1 ELSE processed_count
    /\ failed_count' = IF ret THEN failed_count ELSE failed_count + 1
    /\ i' = i + 1
    /\ pc' = "loop"
    /\ UNCHANGED <<videos, state, skip_existing, skipped_count, ret, calls, log, fresh,
                   prev, run, now, libvars>>

\* _print_summary, cli.py:223.
Summary ==
    /\ pc = "loop" /\ i > Len(videos)
    /\ pc' = "done"
    /\ UNCHANGED <<videos, file, state, i, skip_existing, processed_count, skipped_count,
                   failed_count, ret, calls, log, fresh, prev, run, now, libvars>>

\* The process is interrupted (Ctrl-C, kill): nothing more of the run happens, and
\* what it held in memory is gone; the file stays as the run left it.
Interrupt ==
    /\ pc \in {"loop", "save"}
    /\ pc' = "killed"
    /\ state' = Absent
    /\ i' = 0
    /\ processed_count' = 0 /\ skipped_count' = 0 /\ failed_count' = 0
    /\ ret' = FALSE
    /\ calls' = <<>>
    /\ log' = <<>>
    /\ fresh' = FALSE
    /\ UNCHANGED <<videos, file, skip_existing, prev, run, now, libvars>>

Next ==
    \/ \E skip \in BOOLEAN, fetch_ok \in BOOLEAN, store_ok \in BOOLEAN :
          StartRun(skip, fetch_ok, store_ok)
    \/ SkipVideo
    \/ \E transcript \in TranscriptResults, transformed \in TransformResults,
          file_name \in UploadResults, save_ok \in BOOLEAN :
          ProcessVideo(transcript, transformed, file_name, save_ok)
    \/ SaveClose
    \/ Summary
    \/ Interrupt

Spec == Init /\ [][Next]_vars

\* --------------------------------------------------------- SpecConverge
\* process run again and again on one playlist: first runs in which anything may
\* fail and the run may be interrupted, then runs with skip_existing in which every
\* collaborator call and every save succeeds and the run is left to finish.
FaultyStep ==
    /\ run <= MaxFaultyRuns
    /\ \/ /\ run < MaxFaultyRuns
          /\ \E skip \in BOOLEAN, fetch_ok \in BOOLEAN, store_ok \in BOOLEAN :
                StartRun(skip, fetch_ok, store_ok)
       \/ SkipVideo
       \/ \E transcript \in TranscriptResults, transformed \in TransformResults,
             file_name \in UploadResults, save_ok \in BOOLEAN :
             ProcessVideo(transcript, transformed, file_name, save_ok)
       \/ SaveClose
       \/ Summary
       \/ Interrupt

GoodStart ==
    /\ run >= MaxFaultyRuns
    /\ run < MaxFaultyRuns + MaxGoodRuns
    /\ BeginRun(TRUE, TRUE, TRUE)

GoodStep ==
    /\ run > MaxFaultyRuns
    /\ \/ SkipVideo
       \/ ProcessVideo(Some(SampleTranscript), Some(SampleDocument), "documents/d", TRUE)
       \/ SaveClose
       \/ Summary

NextConverge == FaultyStep \/ GoodStart \/ GoodStep

\* A started run goes on to its end, and the user runs process again.
SpecConverge == Init /\ [][NextConverge]_vars /\ WF_vars(NextConverge)

\* ------------------------------------------------------------- SpecLib
\* The library called directly: any sequence of StateManager and PlaylistState
\* calls on one playlist, starting from any content of its state file.
Without(rec, key) == [k \in (DOMAIN rec) \ {key} |-> rec[k]]

LibRecord(v, error, utcnow) == ProcessedVideo_create(v, <<"title", v>>, <<"youtube-", v>>, 0, 0, error, utcnow)
LibBaseState ==
    add_failed(add_processed(PlaylistState_create(PlaylistId, default_store(PlaylistId), 0),
                             LibRecord("v1", None, 0), 0),
               "v2", "Network error", 0)
LibBaseData == to_json(LibBaseState)
LibBaseEntry == LibBaseData.processed_videos["v1"]
WithEntry(entry) == [LibBaseData EXCEPT !.processed_videos = [v \in {"v1"} |-> entry]]

\* Documents with one top-level key missing.
MissingKeyData == {Without(LibBaseData, k) : k \in DOMAIN LibBaseData}
\* Documents whose processed-video entry misses one field, or has one more.
MissingFieldData == {WithEntry(Without(LibBaseEntry, f)) : f \in ProcessedVideoFields}
ExtraFieldData ==
    {WithEntry([f \in ProcessedVideoFields \cup {"extra"} |->
                   IF f = "extra" THEN "x" ELSE LibBaseEntry[f]])}

LibFiles ==
    {FileAbsent, FileTruncated, FileJson(LibBaseData)}
        \cup {FileJson(d) : d \in MissingKeyData \cup MissingFieldData \cup ExtraFieldData}

InitLib ==
    /\ videos = <<>>
    /\ file \in LibFiles
    /\ state = Absent
    /\ pc = "idle"
    /\ i = 0
    /\ skip_existing = TRUE
    /\ processed_count = 0 /\ skipped_count = 0 /\ failed_count = 0
    /\ ret = FALSE
    /\ calls = <<>>
    /\ log = <<>>
    /\ fresh = FALSE
    /\ prev = NoRun
    /\ run = 0
    /\ now = 0
    /\ op = [name |-> "none"]
    /\ nops = 0
    /\ state_dir = EmptyMap
    /\ stores = <<>>
    /\ index = EmptyIndex
    /\ runs = <<>>

runvars == <<videos, pc, i, skip_existing, processed_count, skipped_count, failed_count,
             ret, calls, log, fresh, prev, run, state_dir, stores, index, runs>>

\* state = state_manager.load(playlist_id); the caller keeps what it returns.
LibLoad ==
    /\ nops < MaxOps
    /\ LET r == load(file) IN
        /\ op' = [name |-> "load", file |-> file, ret |-> r.ret, raised |-> r.raised]
        /\ state' = r.ret
    /\ nops' = nops + 1
    /\ UNCHANGED <<file, now, runvars>>

\* state = state_manager.get_or_create(playlist_id, store)
LibGetOrCreate(utcnow) ==
    /\ nops < MaxOps
    /\ LET r == get_or_create(file, PlaylistId, default_store(PlaylistId), utcnow) IN
        /\ op' = [name |-> "get_or_create", file |-> file, ret |-> r.ret, raised |-> r.raised,
                  utcnow |-> utcnow]
        /\ state' = r.ret
    /\ now' = utcnow
    /\ nops' = nops + 1
    /\ UNCHANGED <<file, runvars>>

\* state.add_processed(ProcessedVideo.create(..., error=error))
LibAddProcessed(v, error, utcnow) ==
    /\ nops < MaxOps
    /\ state # Absent
    /\ LET video == LibRecord(v, error, utcnow) IN
        /\ state' = Some(add_processed(state[1], video, utcnow))
        /\ op' = [name |-> "add_processed", video |-> video, pre |-> state[1]]
    /\ now' = utcnow
    /\ nops' = nops + 1
    /\ UNCHANGED <<file, runvars>>

\* state.add_failed(v, error)
LibAddFailed(v, error, utcnow) ==
    /\ nops < MaxOps
    /\ state # Absent
    /\ state' = Some(add_failed(state[1], v, error, utcnow))
    /\ op' = [name |-> "add_failed", video_id |-> v, error |-> error, pre |-> state[1]]
    /\ now' = utcnow
    /\ nops' = nops + 1
    /\ UNCHANGED <<file, runvars>>

\* state_manager.save(state), start to end.
LibSave ==
    /\ nops < MaxOps
    /\ state # Absent
    /\ file' = save_dump(state[1])
    /\ op' = [name |-> "save", pre |-> file]
    /\ nops' = nops + 1
    /\ UNCHANGED <<state, now, runvars>>

\* state.is_processed(v)
LibIsProcessed(v) ==
    /\ nops < MaxOps
    /\ state # Absent
    /\ op' = [name |-> "is_processed", video_id |-> v, pre |-> state[1],
              result |-> is_processed(state[1], v)]
    /\ nops' = nops + 1
    /\ UNCHANGED <<file, state, now, runvars>>

NextLib ==
    \/ LibLoad
    \/ \E utcnow \in {now, now + 1} : LibGetOrCreate(utcnow)
    \/ \E v \in VideoIds, error \in Errors, utcnow \in {now, now + 1} : LibAddProcessed(v, error, utcnow)
    \/ \E v \in VideoIds, error \in {ErrTranscript, "Network error"}, utcnow \in {now, now + 1} :
          LibAddFailed(v, error, utcnow)
    \/ LibSave
    \/ \E v \in VideoIds : LibIsProcessed(v)

SpecLib == InitLib /\ [][NextLib]_vars

\* ------------------------------------------------------------ SpecStage
\* _process_single_video called for one video after another on a state that
\* get_or_create has returned, with every outcome of the three collaborators and
\* of the save.
InitStage ==
    /\ videos = <<>>
    /\ \/ state = Some(PlaylistState_create(PlaylistId, default_store(PlaylistId), 0)) /\ file = FileAbsent
       \/ state = Some(LibBaseState) /\ file = FileJson(LibBaseData)
    /\ pc = "idle"
    /\ i = 0
    /\ skip_existing = TRUE
    /\ processed_count = 0 /\ skipped_count = 0 /\ failed_count = 0
    /\ ret = FALSE
    /\ calls = <<>>
    /\ log = <<>>
    /\ fresh = FALSE
    /\ prev = NoRun
    /\ run = 0
    /\ now = 0
    /\ op = [name |-> "none"]
    /\ nops = 0
    /\ state_dir = EmptyMap
    /\ stores = <<>>
    /\ index = EmptyIndex
    /\ runs = <<>>

StageAttempt(v, fetched, generated, listed, uploaded, save_ok) ==
    LET utcnow == now + 1
        a == run_stages(VideoInfo(v), state[1], fetched, generated, listed, uploaded, utcnow)
        returns == a.raised = None /\ (a.result.save => save_ok)
    IN  /\ nops < MaxAttempts
        /\ state # Absent
        /\ state' = IF a.raised = None THEN Some(a.result.state) ELSE state
        /\ file' = IF a.raised = None /\ a.result.save /\ save_ok THEN save_dump(a.result.state) ELSE file
        /\ op' = [name |-> "process_single_video", video_id |-> v,
                  fetched |-> fetched, generated |-> generated, listed |-> listed, uploaded |-> uploaded,
                  pre |-> state[1], calls |-> a.result.calls,
                  raised |-> IF a.raised # None THEN a.raised ELSE IF returns THEN None ELSE "OSError",
                  returned |-> IF ~returns THEN "nothing"
                               ELSE IF a.result.success THEN "processed" ELSE "failed"]
        /\ now' = utcnow
        /\ nops' = nops + 1
        /\ UNCHANGED runvars

NextStage ==
    \E v \in VideoIds, fetched \in FetchOutcomes, save_ok \in BOOLEAN :
      \E generated \in GenerateReached(fetched) :
        \E listed \in ListReached(VideoInfo(v), fetched, generated) :
          \E uploaded \in UploadReached(listed) :
            StageAttempt(v, fetched, generated, listed, uploaded, save_ok)

SpecStage == InitStage /\ [][NextStage]_vars

\* -------------------------------------------------------------- SpecDir
\* The state directory with any files in it, whole or damaged, listed and saved to.
DirNames == {"PL1", "PL2"}
DirState(name) ==
    add_processed(PlaylistState_create(name, default_store(name), 0), LibRecord("v1", None, 0), 0)
DirContents(name) ==
    LET data == to_json(DirState(name))
        entry == data.processed_videos["v1"]
    IN  {FileTruncated, FileJson(data), FileJson(Without(data, "playlist_id")),
         FileJson(Without(data, "failed_videos")),
         FileJson([data EXCEPT !.processed_videos = [v \in {"v1"} |-> Without(entry, "processed_at")]]),
         FileJson([data EXCEPT !.processed_videos = [v \in {"v1"} |-> Without(entry, "error")]])}
Dirs == {dir \in UNION {[D -> UNION {DirContents(n) : n \in DirNames}] : D \in SUBSET DirNames} :
            \A n \in DOMAIN dir : dir[n] \in DirContents(n)}
\* The orders in which glob can give the files of a directory.
GlobOrders(dir) ==
    {order \in [1..Cardinality(DOMAIN dir) -> DOMAIN dir] :
        \A n \in DOMAIN dir : \E k \in DOMAIN order : order[k] = n}

InitDir ==
    /\ videos = <<>>
    /\ file = FileAbsent
    /\ state = Absent
    /\ pc = "idle"
    /\ i = 0
    /\ skip_existing = TRUE
    /\ processed_count = 0 /\ skipped_count = 0 /\ failed_count = 0
    /\ ret = FALSE
    /\ calls = <<>>
    /\ log = <<>>
    /\ fresh = FALSE
    /\ prev = NoRun
    /\ run = 0
    /\ now = 0
    /\ op = [name |-> "none"]
    /\ nops = 0
    /\ state_dir \in Dirs
    /\ stores = <<>>
    /\ index = EmptyIndex
    /\ runs = <<>>

dirfixed == <<videos, file, state, pc, i, skip_existing, processed_count, skipped_count,
              failed_count, ret, calls, log, fresh, prev, run, now, stores, index, runs>>

\* state_manager.list_playlists()
DirListPlaylists(order) ==
    /\ nops < MaxOps
    /\ LET r == list_playlists(state_dir, order) IN
        op' = [name |-> "list_playlists", dir |-> state_dir, ret |-> r.ret, raised |-> r.raised]
    /\ nops' = nops + 1
    /\ UNCHANGED <<state_dir, dirfixed>>

\* state_manager.save(state) for a state of the playlist called name.
DirSave(name, v) ==
    /\ nops < MaxOps
    /\ state_dir' = Put(state_dir, name, save_dump(add_failed(DirState(name), v, ErrTranscript, 1)))
    /\ op' = [name |-> "save", playlist_id |-> name]
    /\ nops' = nops + 1
    /\ UNCHANGED dirfixed

NextDir ==
    \/ \E order \in GlobOrders(state_dir) : DirListPlaylists(order)
    \/ \E name \in DirNames, v \in VideoIds : DirSave(name, v)

SpecDir == InitDir /\ [][NextDir]_vars

\* ---------------------------------------------------------- SpecResolve
\* How process gets to its loop (cli.py:146-180), for a playlist named in any form,
\* with every outcome of the playlist source and of the index's store calls; then
\* videos processed and saved, and the store resolved directly.
PlaylistArgs == PlaylistForms("PL1") \cup {BareId("PL2")}
StoreArgs == {Absent, Some(<<"kb">>)}

InitResolve ==
    /\ videos = <<>>
    /\ file = FileAbsent
    /\ state = Absent
    /\ pc = "idle"
    /\ i = 0
    /\ skip_existing = TRUE
    /\ processed_count = 0 /\ skipped_count = 0 /\ failed_count = 0
    /\ ret = FALSE
    /\ calls = <<>>
    /\ log = <<>>
    /\ fresh = FALSE
    /\ prev = NoRun
    /\ run = 0
    /\ now = 0
    /\ op = [name |-> "none"]
    /\ nops = 0
    /\ state_dir = EmptyMap
    /\ stores \in {<<>>, <<NewStore(<<>>, default_store(BareId("PL1")))>>}
    /\ index = EmptyIndex
    /\ runs = <<>>

resolvefixed == <<videos, file, i, skip_existing, processed_count, skipped_count,
                  failed_count, ret, calls, log, fresh, prev, run, index, runs>>

StateFile(dir, playlist_id) == IF playlist_id \in DOMAIN dir THEN dir[playlist_id] ELSE FileAbsent

\* process up to the loop. steps lists what the run got to: the fetch, the store
\* resolution, the state; file_search_store is the store name the loop hands to
\* _process_single_video, and so to upload_document (cli.py:172, 212).
ProcessStart(playlist_id, store_arg, extracted, list_ok, create_ok) ==
    LET utcnow == now + 1
        fetched == fetch_videos(extracted)
        store_name == IF store_arg = Absent THEN default_store(playlist_id) ELSE store_arg[1]
        resolved == get_or_create_file_search_store(stores, store_name, list_ok, create_ok)
        got == get_or_create(StateFile(state_dir, playlist_id), playlist_id, resolved.ret[1], utcnow)
        outcome == process_until_loop(fetched, resolved, got).outcome
        steps == process_until_loop(fetched, resolved, got).steps
    IN  /\ nops < MaxCalls
        /\ pc' = outcome
        /\ stores' = IF Len(steps) >= 2 THEN resolved.stores ELSE stores
        /\ state' = IF outcome = "loop" THEN got.ret ELSE Absent
        /\ op' = [name |-> "process", playlist_id |-> playlist_id,
                  url |-> get_playlist_url(playlist_id), extracted |-> extracted,
                  outcome |-> outcome, steps |-> steps,
                  stores |-> stores, dir |-> state_dir, state |-> state',
                  file_search_store |-> IF Len(steps) >= 2 THEN resolved.ret ELSE Absent]
        /\ now' = utcnow
        /\ nops' = nops + 1
        /\ UNCHANGED <<state_dir, resolvefixed>>

\* A video of the run is processed and the state saved, cli.py:78-89; the save raises
\* when the state's path is in a directory that does not exist.
ProcessSave(v) ==
    /\ nops < MaxCalls
    /\ pc = "loop"
    /\ LET saved == add_processed(state[1], LibRecord(v, None, now), now)
           path == get_state_path(saved.playlist_id)
       IN  /\ state' = Some(saved)
           /\ IF PathInMissingDirectory(path)
              THEN pc' = "exit1" /\ state_dir' = state_dir
              ELSE pc' = "loop" /\ state_dir' = Put(state_dir, saved.playlist_id, save_dump(saved))
    /\ nops' = nops + 1
    /\ UNCHANGED <<op, now, stores, resolvefixed>>

\* uploader.get_or_create_file_search_store(store_name)
ResolveStore(store_name, list_ok, create_ok) ==
    /\ nops < MaxCalls
    /\ LET r == get_or_create_file_search_store(stores, store_name, list_ok, create_ok) IN
        /\ stores' = r.stores
        /\ op' = [name |-> "get_or_create_file_search_store", store_name |-> store_name,
                  stores |-> stores, ret |-> r.ret, raised |-> r.raised]
    /\ nops' = nops + 1
    /\ UNCHANGED <<state, pc, now, state_dir, resolvefixed>>

NextResolve ==
    \/ \E playlist_id \in PlaylistArgs, store_arg \in StoreArgs, extracted \in ExtractOutcomes :
         \E list_ok \in (IF Usable(fetch_videos(extracted)) THEN BOOLEAN ELSE {TRUE}) :
           \E create_ok \in (IF list_ok /\ Usable(fetch_videos(extracted)) THEN BOOLEAN ELSE {TRUE}) :
             ProcessStart(playlist_id, store_arg, extracted, list_ok, create_ok)
    \/ \E v \in VideoIds : ProcessSave(v)
    \/ \E store_name \in {default_store(BareId("PL1")), <<"kb">>}, list_ok \in BOOLEAN, create_ok \in BOOLEAN :
         ResolveStore(store_name, list_ok, create_ok)

SpecResolve == InitResolve /\ [][NextResolve]_vars

\* ------------------------------------------------------------ SpecUpload
\* upload_document called again and again on one store, its poll loop taken step by
\* step: pc is "test" at the loop's test and "get" between the sleep and operations.get.
MaxUploads == 3
MaxPolls == 2
Bounded(n) == IF n < MaxPolls THEN n + 1 ELSE MaxPolls

InitUpload ==
    /\ videos = <<>>
    /\ file = FileAbsent
    /\ state = Absent
    /\ pc = "idle"
    /\ i = 0
    /\ skip_existing = TRUE
    /\ processed_count = 0
    /\ skipped_count = 0
    /\ failed_count = 0
    /\ ret = Absent
    /\ calls = <<>>
    /\ log = <<>>
    /\ fresh = FALSE
    /\ prev = Absent
    /\ run = 0
    /\ now = 0
    /\ op = [name |-> "none"]
    /\ nops = 0
    /\ state_dir = EmptyMap
    /\ stores = <<>>
    /\ index = EmptyIndex
    /\ runs = <<>>

uploadfixed == <<videos, file, state, i, skip_existing, processed_count, skipped_count,
                 failed_count, calls, log, fresh, prev, run, now, state_dir, stores, runs>>

\* upload_document up to the loop, uploader.py:66-96. tmp tells of the temporary file:
\* "none" before NamedTemporaryFile(delete=False) makes it, "exists" from then on,
\* "removed" once the finally clause has unlinked it. write_ok says whether writing
\* the content and closing the file go through; when they raise, control leaves for
\* the outer except clause without entering the try that carries the finally.
UploadDocument(video_id, check_existing, list_ok, write_ok, answer, as_file) ==
    LET display_name == document_display_name(video_id)
        existing == IF check_existing THEN find_existing_file(index.files, display_name, list_ok)
                    ELSE Absent
        call == [name |-> "upload_document", video_id |-> video_id, display_name |-> display_name,
                 check_existing |-> check_existing, pre |-> index, uploads |-> 0, gets |-> 0,
                 not_done_seen |-> 0, operation |-> Absent, raised |-> "None", tmp |-> "none"]
    IN  /\ pc \in {"idle", "returned"}
        /\ nops < MaxUploads
        /\ nops' = nops + 1
        /\ IF existing # Absent
           THEN /\ op' = call
                /\ ret' = existing
                /\ pc' = "returned"
                /\ index' = index
           ELSE IF ~write_ok
           THEN /\ op' = [call EXCEPT !.raised = "write", !.tmp = "exists"]
                /\ ret' = Absent
                /\ pc' = "returned"
                /\ index' = index
           ELSE IF answer = "raises"
           THEN /\ op' = [call EXCEPT !.uploads = 1, !.raised = "upload", !.tmp = unlink("exists")]
                /\ ret' = Absent
                /\ pc' = "returned"
                /\ index' = index
           ELSE /\ op' = [call EXCEPT !.uploads = 1, !.operation = Some(OperationOf(index, answer)),
                                      !.tmp = "exists"]
                /\ ret' = Absent
                /\ pc' = "test"
                /\ index' = IndexAfter(index, answer, display_name, as_file)
        /\ UNCHANGED uploadfixed

\* `while not operation.done`, and what follows the loop, uploader.py:99 and 103-112.
UploadLoopTest ==
    /\ pc = "test"
    /\ IF poll_again(op.operation[1])
       THEN /\ pc' = "get"
            /\ op' = [op EXCEPT !.not_done_seen = Bounded(@)]
            /\ ret' = ret
       ELSE /\ pc' = "returned"
            /\ op' = [op EXCEPT !.tmp = unlink(@)]
            /\ ret' = document_name_of(op.operation[1])
    /\ UNCHANGED <<nops, index, uploadfixed>>

\* time.sleep(2); operation = self.client.operations.get(operation), uploader.py:100-101.
UploadOperationsGet(answer, as_file) ==
    /\ pc = "get"
    /\ IF answer = "raises"
       THEN /\ op' = [op EXCEPT !.gets = Bounded(@), !.raised = "get", !.tmp = unlink(@)]
            /\ pc' = "returned"
            /\ index' = index
       ELSE /\ op' = [op EXCEPT !.gets = Bounded(@), !.operation = Some(OperationOf(index, answer))]
            /\ pc' = "test"
            /\ index' = IndexAfter(index, answer, op.display_name, as_file)
    /\ UNCHANGED <<nops, ret, uploadfixed>>

UploadPolls == \E answer \in OperationOutcomes, as_file \in BOOLEAN : UploadOperationsGet(answer, as_file)

NextUpload ==
    \/ \E video_id \in VideoIds, check_existing \in BOOLEAN, list_ok \in BOOLEAN,
          write_ok \in BOOLEAN, answer \in OperationOutcomes, as_file \in BOOLEAN :
            UploadDocument(video_id, check_existing, list_ok, write_ok, answer, as_file)
    \/ UploadLoopTest
    \/ UploadPolls

SpecUpload == InitUpload /\ [][NextUpload]_vars

\* The interpreter goes on running the loop: its test and the status check each
\* happen when the loop has come to them.
SpecPoll == InitUpload /\ [][NextUpload]_vars /\ WF_vars(UploadLoopTest) /\ WF_vars(UploadPolls)

\* ------------------------------------------------------------ SpecFormat
\* _format_timestamp and format_transcript applied to offsets and transcripts.
MaxSegments == 2
WholeSeconds == {0, 1, 9, 10, 59, 60, 61, 599, 600, 3599, 3600, 3601, 3661, 7384,
                 35999, 36000, 86399, 359999, 360000}
Offsets == {Seconds(w, t) : w \in WholeSeconds, t \in {0, 4, 9}}
Segments == {[text |-> t, start |-> s, duration |-> 2] :
                t \in {<<"H", "i">>, <<"a", "\n", "b">>},
                s \in {Seconds(0, 0), Seconds(59, 9), Seconds(75, 5), Seconds(3600, 0)}}
Transcripts == UNION {[1..n -> Segments] : n \in 0..MaxSegments}

FormatTimestamp(seconds) ==
    /\ op' = [name |-> "format_timestamp", seconds |-> seconds, ret |-> format_timestamp(seconds)]
    /\ UNCHANGED <<pc, ret, nops, index, uploadfixed>>

FormatTranscript(transcript) ==
    /\ op' = [name |-> "format_transcript", transcript |-> transcript,
              ret |-> format_transcript(transcript)]
    /\ UNCHANGED <<pc, ret, nops, index, uploadfixed>>

NextFormat ==
    \/ \E seconds \in Offsets : FormatTimestamp(seconds)
    \/ \E transcript \in Transcripts : FormatTranscript(transcript)

SpecFormat == InitUpload /\ [][NextFormat]_vars

\* -------------------------------------------------------------- SpecRace
\* Several process runs at once on one state directory, cli.py:174-213: each run holds
\* the PlaylistState it got at its start, and after each video saves the whole of it
\* to the file of its playlist; nothing orders the runs' steps. state_dir is keyed by
\* the file's path here, saved lists what the run has saved (the video and the map),
\* op tells which run made the last save, and nops counts the saves of all runs.
MaxSaves == 3
Procs == {1, 2}
RacePlaylists == {BareId("PL1"), BareId("PL2")}
IdleRun == [pc |-> "idle", playlist_id |-> <<>>, state |-> Absent, saved |-> {}]

InitRace ==
    /\ videos = <<>>
    /\ file = FileAbsent
    /\ state = Absent
    /\ pc = "idle"
    /\ i = 0
    /\ skip_existing = TRUE
    /\ processed_count = 0
    /\ skipped_count = 0
    /\ failed_count = 0
    /\ ret = Absent
    /\ calls = <<>>
    /\ log = <<>>
    /\ fresh = FALSE
    /\ prev = Absent
    /\ run = 0
    /\ now = 1
    /\ op = [name |-> "none"]
    /\ nops = 0
    /\ state_dir = EmptyMap
    /\ stores = <<>>
    /\ index = EmptyIndex
    /\ runs = [p \in Procs |-> IdleRun]

racefixed == <<videos, file, state, pc, i, skip_existing, processed_count, skipped_count,
               failed_count, ret, calls, log, fresh, prev, run, now, stores, index>>

\* state_manager.get_or_create(playlist_id, file_search_store), cli.py:175.
RaceStart(p, playlist_id) ==
    /\ runs[p].pc = "idle"
    /\ LET got == get_or_create(StateFile(state_dir, get_state_path(playlist_id)), playlist_id,
                                default_store(playlist_id), now)
       IN  runs' = [runs EXCEPT ![p] = [pc |-> "loop", playlist_id |-> playlist_id,
                                        state |-> got.ret, saved |-> {}]]
    /\ UNCHANGED <<op, nops, state_dir, racefixed>>

\* One video of the run: add_processed or add_failed on the run's own state object,
\* then state.save of the whole object, cli.py:52-53, 87-88.
RaceVideo(p, v, success) ==
    /\ runs[p].pc = "loop"
    /\ nops < MaxSaves
    /\ nops' = nops + 1
    /\ LET mine == runs[p].state[1]
           after == IF success THEN add_processed(mine, LibRecord(v, None, now), now)
                    ELSE add_failed(mine, v, ErrTranscript, now)
       IN  /\ runs' = [runs EXCEPT ![p].state = Some(after),
                                   ![p].saved = @ \cup {<<v, IF success THEN "processed" ELSE "failed">>}]
           /\ state_dir' = Put(state_dir, get_state_path(after.playlist_id), save_dump(after))
           /\ op' = [name |-> "save", by |-> p, playlist_id |-> after.playlist_id]
    /\ UNCHANGED racefixed

\* The loop is over, cli.py:223.
RaceSummary(p) ==
    /\ runs[p].pc = "loop"
    /\ runs' = [runs EXCEPT ![p].pc = "done"]
    /\ UNCHANGED <<op, nops, state_dir, racefixed>>

NextRace ==
    \/ \E p \in Procs, playlist_id \in RacePlaylists : RaceStart(p, playlist_id)
    \/ \E p \in Procs, v \in VideoIds, success \in BOOLEAN : RaceVideo(p, v, success)
    \/ \E p \in Procs : RaceSummary(p)

SpecRace == InitRace /\ [][NextRace]_vars

\* ================================================================ claims
Range(seq) == {seq[k] : k \in 1..Len(seq)}
Distinct(seq) == \A a, b \in 1..Len(seq) : a # b => seq[a] # seq[b]
Failures == {"transcript", "transform", "upload"}
\* The run has a loop iteration to make for videos[i], and makes it in this step.
ReachesVideo == pc = "loop" /\ i <= Len(videos) /\ pc' # "killed"
\* A log in which one video's transcript fetch failed and every other video was processed.
OneTranscriptFailure(l) ==
    \E k \in 1..Len(l) : /\ l[k].outcome = "transcript"
                         /\ \A j \in (1..Len(l)) \ {k} : l[j].outcome = "processed"
FailedVideoOf(l) == l[CHOOSE k \in 1..Len(l) : l[k].outcome = "transcript"].v

\* C1: in a run with skip_existing, when the loop reaches a video whose id is in
\* processed_videos with a null error, the step makes no stage call, leaves the state
\* object and the state file as they are, and adds exactly 1 to skipped_count and
\* nothing to the other two counters.
C1_IdempotentSkip ==
    [][ (/\ ReachesVideo
         /\ skip_existing
         /\ videos[i] \in DOMAIN state[1].processed_videos
         /\ state[1].processed_videos[videos[i]].error = None)
        => (/\ calls' = calls
            /\ state' = state
            /\ file' = file
            /\ skipped_count' = skipped_count + 1
            /\ processed_count' = processed_count
            /\ failed_count' = failed_count) ]_vars

C1_Witness ==
    /\ pc = "done" /\ skip_existing
    /\ \E k \in 1..Len(log) : log[k].outcome = "skipped"
    /\ \E k \in 1..Len(log) : log[k].outcome # "skipped"

C3_PartialFailureIsolation ==
    /\ (pc = "done" /\ fresh /\ Distinct(videos) /\ OneTranscriptFailure(log))
        => LET v == FailedVideoOf(log)
               persisted == load(file)
           IN  /\ processed_count = Len(videos) - 1
               /\ skipped_count = 0
               /\ failed_count = 1
               /\ persisted.ret = state
               /\ v \in DOMAIN persisted.ret[1].failed_videos
               /\ v \notin DOMAIN persisted.ret[1].processed_videos
    /\ (/\ prev.fresh_done /\ Distinct(videos) /\ OneTranscriptFailure(prev.log)
        /\ skip_existing /\ pc \in {"loop", "save", "done"})
        => /\ \A k \in 1..Len(log) :
                (log[k].outcome # "skipped") <=> (log[k].v = FailedVideoOf(prev.log))
           /\ pc = "done" => \E k \in 1..Len(log) : log[k].v = FailedVideoOf(prev.log)

C3_Witness ==
    /\ pc = "done" /\ skip_existing
    /\ prev.fresh_done /\ Distinct(videos) /\ Len(videos) >= 2
    /\ OneTranscriptFailure(prev.log)
    /\ skipped_count = Len(videos) - 1

\* C4: a run from a fresh state over N distinct videos in which no stage fails reports
\* N processed, 0 skipped, 0 failed, and the state file then loads as a state with
\* exactly one record per video id of the playlist, each with a null error.
C4_HappyPath ==
    (pc = "done" /\ fresh /\ Distinct(videos) /\ \A k \in 1..Len(log) : log[k].outcome \notin Failures)
        => LET persisted == load(file) IN
           /\ processed_count = Len(videos)
           /\ skipped_count = 0
           /\ failed_count = 0
           /\ persisted.raised = None
           /\ persisted.ret # Absent
           /\ DOMAIN persisted.ret[1].processed_videos = Range(videos)
           /\ Cardinality(DOMAIN persisted.ret[1].processed_videos) = Len(videos)
           /\ \A v \in Range(videos) :
                /\ persisted.ret[1].processed_videos[v].video_id = v
                /\ persisted.ret[1].processed_videos[v].error = None

C4_Witness ==
    /\ pc = "done" /\ fresh /\ Distinct(videos) /\ Len(videos) >= 2
    /\ processed_count = Len(videos)

\* C5: when a video processed in the previous run is attempted again in this run with
\* the other outcome (success then failure, or failure then success), the state holds
\* a record for it and the record tells the second outcome: its error is null exactly
\* when the second attempt succeeded.
C5_LastWriteWins ==
    (pc \in {"loop", "done"} /\ prev.fresh_done /\ Distinct(videos))
        => \A k \in 1..Len(log), j \in 1..Len(prev.log) :
            (/\ log[k].v = prev.log[j].v
             /\ log[k].outcome # "skipped"
             /\ (log[k].outcome = "processed") # (prev.log[j].outcome = "processed"))
            => /\ log[k].v \in DOMAIN state[1].processed_videos
               /\ (state[1].processed_videos[log[k].v].error = None)
                    <=> (log[k].outcome = "processed")

\* C6: once _process_single_video has returned for a video of the run, the state file
\* holds a document that loads as the state object the run has in memory, and that
\* state tells the outcome of the last video attempted.
C6_SavedOnEveryPath ==
    (pc \in {"loop", "done"} /\ \E k \in 1..Len(log) : log[k].outcome # "skipped")
        => LET persisted == load(file)
               last == log[CHOOSE k \in 1..Len(log) :
                             /\ log[k].outcome # "skipped"
                             /\ \A j \in (k + 1)..Len(log) : log[j].outcome = "skipped"]
           IN  /\ persisted.raised = None
               /\ persisted.ret = state
               /\ IF last.outcome = "processed"
                  THEN last.v \in DOMAIN persisted.ret[1].processed_videos
                  ELSE last.v \in DOMAIN persisted.ret[1].failed_videos

\* Every failure point has been passed and saved in one run.
C6_Witness ==
    /\ pc = "done" /\ Len(log) = 2
    /\ log[1].outcome = "upload" /\ log[2].outcome = "transform"
    /\ load(file).ret = state

\* C7: an exception raised while a video is being processed does not end the run:
\* the run never exits with an error once its loop has reached a video.
C7_PerVideoExceptionIsolation == ~(pc = "exit1" /\ log # <<>>)

\* C9: the state file never holds an empty or partial document: whatever moment a
\* load happens at, it finds no file, or a whole document.
C9_AtomicSave == file.kind \in {"absent", "json"}

\* C8: on a malformed state file (no parseable JSON, a required top-level key
\* missing, or a processed-video entry with a field missing or a field too many)
\* load returns None without raising, and get_or_create returns a fresh state.
Malformed(f) ==
    \/ f.kind = "truncated"
    \/ /\ f.kind = "json"
       /\ \/ ~(RequiredKeys \subseteq DOMAIN f.data)
          \/ /\ "processed_videos" \in DOMAIN f.data
             /\ \E v \in DOMAIN f.data.processed_videos :
                    DOMAIN f.data.processed_videos[v] # ProcessedVideoFields

C8_CorruptStateNeverFatal ==
    (op.name \in {"load", "get_or_create"} /\ Malformed(op.file))
        => /\ op.raised = None
           /\ op.name = "load" => op.ret = Absent
           /\ op.name = "get_or_create" =>
                op.ret = Some(PlaylistState_create(PlaylistId, default_store(PlaylistId), op.utcnow))

\* What C10 says of the call recorded in op.
LedgerClearedFor(v) ==
    /\ v \in DOMAIN state[1].processed_videos
    /\ state[1].processed_videos[v] = op.video
    /\ v \notin DOMAIN state[1].failed_videos
    /\ DOMAIN state[1].failed_videos = (DOMAIN op.pre.failed_videos) \ {v}
    /\ \A w \in DOMAIN state[1].failed_videos :
            state[1].failed_videos[w] = op.pre.failed_videos[w]

C11_SuccessKeepsLedger ==
    (op.name = "add_processed" /\ op.video.error = None)
        => /\ state[1].failed_videos = op.pre.failed_videos
           /\ op.video.video_id \in DOMAIN op.pre.failed_videos
                => /\ op.video.video_id \in DOMAIN state[1].failed_videos
                   /\ op.video.video_id \in DOMAIN state[1].processed_videos
                   /\ state[1].processed_videos[op.video.video_id] = op.video

\* An error-free record was added for a video that was in the ledger.
C11_Witness ==
    /\ op.name = "add_processed" /\ op.video.error = None
    /\ op.video.video_id \in DOMAIN op.pre.failed_videos
    /\ op.video.video_id \in DOMAIN state[1].failed_videos

RecordedAsFailed(error, stage_calls) ==
    /\ op.raised \in {None, "OSError"}
    /\ state[1].failed_videos = Put(op.pre.failed_videos, op.video_id, error)
    /\ state[1].processed_videos = op.pre.processed_videos
    /\ op.calls = stage_calls
    /\ op.raised = None => (op.returned = "failed" /\ load(file) = Returned(state))

FetchRaises(fetched) == fetched.kind = "raises"
FetchEmpty(fetched) == fetched.kind = "returns" /\ fetched.value = <<>>

\* C13 as stated: when the transcript source raises (disabled, not found, unavailable,
\* anything else) or yields no segments, get_transcript returns None without raising,
\* and _process_single_video records "Failed to retrieve transcript", saves, returns
\* failed, and calls neither the rewrite nor the upload.
C13_FetchFailureGivesNone ==
    (op.name = "process_single_video" /\ (FetchRaises(op.fetched) \/ FetchEmpty(op.fetched)))
        => /\ get_transcript(op.fetched) = Returned(Absent)
           /\ RecordedAsFailed(ErrTranscript, << <<"transcript", op.video_id>> >>)

\* C13 amended: when the transcript source raises, get_transcript returns None without
\* raising; when it yields no segments, get_transcript returns the empty list; in both
\* cases _process_single_video records "Failed to retrieve transcript", saves, returns
\* failed, and calls neither the rewrite nor the upload.
C13_FetchFailureRecovered ==
    (op.name = "process_single_video" /\ (FetchRaises(op.fetched) \/ FetchEmpty(op.fetched)))
        => /\ FetchRaises(op.fetched) => get_transcript(op.fetched) = Returned(Absent)
           /\ FetchEmpty(op.fetched) => get_transcript(op.fetched) = Returned(Some(<<>>))
           /\ RecordedAsFailed(ErrTranscript, << <<"transcript", op.video_id>> >>)

\* The source raised an exception that is none of the three named ones, for a video
\* that has a record, and the attempt returned failed.
C13_Witness ==
    /\ op.name = "process_single_video" /\ op.fetched = Raises("Exception")
    /\ op.returned = "failed"
    /\ op.video_id \in DOMAIN state[1].processed_videos
    /\ state[1].failed_videos[op.video_id] = ErrTranscript

GenerateFails(generated) ==
    \/ generated.kind = "raises"
    \/ /\ generated.kind = "returns"
       /\ \/ generated.value = Absent
          \/ generated.value[1].text \in {Absent, Some(<<>>)}

\* C14: when the generative call raises, returns no response, or returns a response
\* with no text or an empty text, transform returns None without raising, and
\* _process_single_video records "Failed to transform transcript", saves, returns
\* failed, and does not call the upload.
C14_RewriteFailureRecovered ==
    (op.name = "process_single_video" /\ GenerateFails(op.generated))
        => /\ transform(VideoInfo(op.video_id), op.generated) = Returned(Absent)
           /\ RecordedAsFailed(ErrTransform, << <<"transcript", op.video_id>>, <<"rewrite", op.video_id>> >>)

\* The generative call returned an empty text and the attempt returned failed.
C14_Witness ==
    /\ op.name = "process_single_video"
    /\ op.generated = Gives(Some([text |-> Some(<<>>)]))
    /\ op.returned = "failed"
    /\ state[1].failed_videos[op.video_id] = ErrTransform

UploadFails(uploaded) ==
    \/ uploaded.kind = "raises"
    \/ /\ uploaded.kind = "returns"
       /\ \/ uploaded.value = Absent
          \/ uploaded.value[1].response = Absent
          \/ "document_name" \notin DOMAIN uploaded.value[1].response[1]
          \/ ~Truthy(uploaded.value[1].response[1].document_name)

\* C15: when the index call raises, returns no operation, or finishes without a
\* usable document name, upload_document returns None without raising, and
\* _process_single_video records "Failed to upload to Gemini", saves, returns failed,
\* and adds no processed_videos record.
C15_UploadFailureRecovered ==
    (op.name = "process_single_video" /\ UploadFails(op.uploaded))
        => /\ upload_document(op.listed, op.uploaded) = Returned(None)
           /\ RecordedAsFailed(ErrUpload, << <<"transcript", op.video_id>>, <<"rewrite", op.video_id>>,
                                             <<"upload", op.video_id>> >>)

\* The operation finished with a response that has no document name, for a video
\* without a record, and the attempt returned failed.
C15_Witness ==
    /\ op.name = "process_single_video"
    /\ op.uploaded = Gives(Some([response |-> Some([document_name |-> None])]))
    /\ op.returned = "failed"
    /\ op.video_id \notin DOMAIN state[1].processed_videos
    /\ state[1].failed_videos[op.video_id] = ErrUpload

\* Every video of the playlist is is-processed in the run's state.
AllProcessed == state # Absent /\ \A v \in Range(videos) : is_processed(state[1], v)
\* The run has ended having skipped every video and called no collaborator for one.
NothingToDo ==
    /\ processed_count = 0 /\ failed_count = 0 /\ skipped_count = Len(videos)
    /\ calls = <<>>
    /\ AllProcessed

\* C16: once every collaborator call succeeds, repeated runs with skip_existing reach
\* a state in which every video of the playlist is is-processed (the first such run
\* ends in it), and every run after that one ends with processed_count = 0,
\* failed_count = 0, skipped_count = N and no stage call made.
C16_Convergence ==
    /\ <>(run > MaxFaultyRuns /\ (videos = <<>> \/ (pc = "done" /\ AllProcessed)))
    /\ [][ (run > MaxFaultyRuns + 1 /\ pc = "loop" /\ pc' = "done") => NothingToDo' ]_vars

\* The second of the runs in which nothing fails has ended, on a playlist of two
\* videos, with nothing to do.
C16_Witness ==
    /\ run = MaxFaultyRuns + 2 /\ pc = "done" /\ Len(videos) = 2 /\ Distinct(videos)
    /\ NothingToDo
    /\ load(file).ret = state

\* The stage calls _process_single_video makes for a video, by how the attempt ends.
CallsOf(entry) ==
    CASE entry.outcome = "skipped" -> <<>>
      [] entry.outcome = "transcript" -> << <<"transcript", entry.v>> >>
      [] entry.outcome = "transform" -> << <<"transcript", entry.v>>, <<"rewrite", entry.v>> >>
      [] OTHER -> << <<"transcript", entry.v>>, <<"rewrite", entry.v>>, <<"upload", entry.v>> >>

RECURSIVE CallsOfAll(_)
CallsOfAll(l) == IF l = <<>> THEN <<>> ELSE CallsOf(Head(l)) \o CallsOfAll(Tail(l))

\* C17: within a run the videos reached so far are the first videos of the playlist,
\* in its order, each reached once per place it has in the playlist; the stage calls
\* made are those of the first video, then those of the second, and so on; and a
\* stage call is made only when no save is under way and the save of the video
\* attempted before it is complete.
C17_SequentialOrder ==
    /\ [](pc \in {"loop", "save", "done"}
            => /\ Len(log) = (IF pc = "save" THEN i ELSE i - 1)
               /\ Len(log) <= Len(videos)
               /\ \A k \in 1..Len(log) : log[k].v = videos[k]
               /\ calls = CallsOfAll(log))
    /\ [][ Len(calls') > Len(calls)
            => /\ pc = "loop"
               /\ calls = CallsOfAll(log)
               /\ (\E k \in 1..Len(log) : log[k].outcome # "skipped") => load(file).ret = state
               /\ calls' = calls \o CallsOf(log'[Len(log')])
               /\ log'[Len(log')].v = videos[i] ]_vars

\* Two different videos have been attempted in one run, the first one failing at its
\* rewrite.
C17_Witness ==
    /\ pc = "done" /\ Len(videos) = 2 /\ Distinct(videos)
    /\ log[1].outcome = "transform" /\ log[2].outcome = "processed"
    /\ Len(calls) = 5

\* C18: when load returns a state, get_or_create returns that state; when load returns
\* None, get_or_create returns a new PlaylistState for the playlist, bound to the store
\* it was given, with empty processed_videos and failed_videos; either way the state
\* file is as it was before the call.
C18_GetOrCreate ==
    (op.name = "get_or_create" /\ load(op.file).raised = None)
        => /\ op.raised = None
           /\ file = op.file
           /\ IF load(op.file).ret # Absent
              THEN op.ret = load(op.file).ret
              ELSE /\ op.ret # Absent
                   /\ op.ret[1].playlist_id = PlaylistId
                   /\ op.ret[1].file_search_store_name = default_store(PlaylistId)
                   /\ op.ret[1].processed_videos = EmptyMap
                   /\ op.ret[1].failed_videos = EmptyMap
                   /\ op.ret[1].created_at = op.utcnow
                   /\ op.ret[1].last_updated = op.utcnow

\* get_or_create has returned a new state and there is still no state file.
C18_Witness ==
    /\ op.name = "get_or_create" /\ op.file = FileAbsent
    /\ op.ret # Absent /\ op.ret[1].processed_videos = EmptyMap
    /\ file = FileAbsent

\* The file loads: load returns a state for it.
Loads(f) == load(f).raised = None /\ load(f).ret # Absent

\* C19: list_playlists does not raise, and what it returns is exactly the states of
\* the files of the directory that load, one for each such file.
C19_ListSkipsCorrupt ==
    (op.name = "list_playlists")
        => /\ op.raised = None
           /\ Range(op.ret) = {load(op.dir[n]).ret[1] : n \in {m \in DOMAIN op.dir : Loads(op.dir[m])}}
           /\ Len(op.ret) = Cardinality({m \in DOMAIN op.dir : Loads(op.dir[m])})

\* C20: after save(s), load returns a state equal to s: the same playlist id, store
\* name, created_at and last_updated, the same processed records with their errors,
\* and the same failed_videos.
C20_SaveLoadRoundTrip ==
    (op.name = "save")
        => /\ load(file).raised = None
           /\ load(file).ret # Absent
           /\ LET s == state[1]
                  l == load(file).ret[1]
              IN  /\ l.playlist_id = s.playlist_id
                  /\ l.file_search_store_name = s.file_search_store_name
                  /\ l.created_at = s.created_at
                  /\ l.last_updated = s.last_updated
                  /\ DOMAIN l.processed_videos = DOMAIN s.processed_videos
                  /\ \A v \in DOMAIN s.processed_videos : l.processed_videos[v] = s.processed_videos[v]
                  /\ l.failed_videos = s.failed_videos
                  /\ l = s

\* A state with a record that carries an error and with a ledger entry has been saved.
C20_Witness ==
    /\ op.name = "save"
    /\ \E v \in DOMAIN state[1].processed_videos : state[1].processed_videos[v].error = "Transcripts disabled"
    /\ DOMAIN state[1].failed_videos # {}
    /\ load(file).ret = state

\* C21: with a clock that does not go back, every add_processed and every add_failed
\* sets last_updated to the clock's reading, which is not smaller than the value it
\* had, and leaves created_at as it was; and created_at <= last_updated in every state
\* the library holds.
C21_LastUpdatedMonotonic ==
    /\ (op.name \in {"add_processed", "add_failed"})
          => /\ state[1].last_updated = now
             /\ state[1].last_updated >= op.pre.last_updated
             /\ state[1].created_at = op.pre.created_at
    /\ state # Absent => state[1].created_at <= state[1].last_updated

\* add_failed has moved last_updated forward, past created_at.
C21_Witness ==
    /\ op.name = "add_failed"
    /\ state[1].last_updated > op.pre.last_updated
    /\ state[1].created_at < state[1].last_updated

\* What C22 and C23 say of the start recorded in op: the run stopped after the fetch,
\* with the stores, the state files and the stage calls as they were and no state held.
StoppedAfterFetch ==
    /\ op.steps = <<"fetch">>
    /\ stores = op.stores
    /\ state_dir = op.dir
    /\ state = Absent
    /\ calls = <<>>

\* C22: when the playlist source raises or gives no information, fetch_videos raises
\* and the run exits with an error, with no store looked up or created, no state
\* loaded, changed or saved, and no stage call made.
C22_FetchFailureIsFatal ==
    (op.name = "process" /\ (op.extracted.kind = "raises" \/ op.extracted.value = Absent))
        => /\ fetch_videos(op.extracted).raised # None
           /\ op.outcome = "exit1" /\ pc = "exit1"
           /\ StoppedAfterFetch

\* The source gave no information for a playlist that has a state file and a store.
C22_Witness ==
    /\ op.name = "process" /\ op.extracted = Gives(Absent) /\ pc = "exit1"
    /\ op.playlist_id \in DOMAIN state_dir
    /\ stores # <<>>

\* C23: when the playlist source gives no entries, the run ends without an error exit,
\* with no store looked up or created, no state created or saved, and no stage call
\* made.
C23_EmptyPlaylistReported ==
    (op.name = "process" /\ op.extracted.kind = "returns" /\ op.extracted.value # Absent
        /\ op.extracted.value[1].entries = <<>>)
        => /\ fetch_videos(op.extracted) = Returned(<<>>)
           /\ op.outcome = "no_videos" /\ pc = "no_videos"
           /\ StoppedAfterFetch

\* The source gave an empty playlist where no store and no state file exist yet.
C23_Witness ==
    /\ op.name = "process" /\ op.extracted = Gives(Some([entries |-> <<>>])) /\ pc = "no_videos"
    /\ stores = <<>> /\ state_dir = EmptyMap /\ now > 0

\* The playlist an argument names: the piece after "list=", or the bare identifier.
NamedPlaylist(text) ==
    IF Contains(text, "list=")
    THEN text[1 + CHOOSE k \in 1..Len(text) : text[k] = "list=" /\ \A j \in 1..(k - 1) : text[j] # "list="]
    ELSE text[1]

\* C24: a run that reaches the loop holds the records of every state file written for
\* the playlist its argument names, under whatever form of the identifier, and its
\* saves reach the state directory.
C24_OneStatePerPlaylist ==
    (op.name = "process" /\ op.outcome = "loop")
        => /\ \A key \in DOMAIN op.dir :
                 (NamedPlaylist(key) = NamedPlaylist(op.playlist_id) /\ load(op.dir[key]).ret # Absent)
                    => \A v \in DOMAIN load(op.dir[key]).ret[1].processed_videos :
                          v \in DOMAIN op.state[1].processed_videos
           /\ pc = "loop"

\* C25: the address the playlist is fetched from is the canonical one of the playlist
\* the argument names, and deriving it again from itself changes nothing.
C25_CanonicalUrl ==
    (op.name = "process")
        => /\ op.url = UrlPrefix \o <<NamedPlaylist(op.playlist_id)>>
           /\ get_playlist_url(op.url) = op.url

\* C26: a call that does not raise returns the resource name of the store with the
\* display name asked for, creating that store only when no store had the name; the
\* stores it found are kept, and no two stores share a display name.
C26_StoreResolutionIdempotent ==
    /\ (op.name = "get_or_create_file_search_store")
          => LET had == {k \in 1..Len(op.stores) : op.stores[k].display_name = op.store_name}
                 has == {k \in 1..Len(stores) : stores[k].display_name = op.store_name}
             IN  /\ (had # {} \/ op.raised # None) => stores = op.stores
                 /\ (had = {} /\ op.raised = None)
                       => /\ Len(stores) = Len(op.stores) + 1
                          /\ SubSeq(stores, 1, Len(op.stores)) = op.stores
                 /\ op.raised = None
                       => /\ Cardinality(has) = 1
                          /\ \A k \in has : op.ret = Some(stores[k].name)
    /\ \A a, b \in 1..Len(stores) : stores[a].display_name = stores[b].display_name => a = b

\* A call found the store an earlier call had created, and returned its name without
\* creating another.
C26_Witness ==
    /\ op.name = "get_or_create_file_search_store"
    /\ op.store_name = <<"kb">>
    /\ op.raised = None
    /\ \E k \in 1..Len(op.stores) : op.stores[k].display_name = <<"kb">> /\ op.ret = Some(op.stores[k].name)
    /\ stores = op.stores

\* C27: display names tell the videos apart, a call that finds a document with its
\* display name in the store uploads nothing and returns a handle, and the store never
\* holds two documents with one display name.
C27_RepeatedUploadRecognized ==
    /\ \A v, w \in VideoIds : document_display_name(v) = document_display_name(w) => v = w
    /\ (op.name = "upload_document" /\ op.check_existing
          /\ \E k \in 1..Len(op.pre.documents) : op.pre.documents[k].display_name = op.display_name)
          => /\ op.uploads = 0
             /\ ret # Absent
    /\ \A a, b \in 1..Len(index.documents) :
          index.documents[a].display_name = index.documents[b].display_name => a = b

InLoop == pc \in {"test", "get"}

\* C28: the status is checked once for every not-done status seen; a call that
\* submitted its document returns only when the operation is done or a status check
\* has raised, and a handle only when it is done; a loop that sees the operation done
\* returns, and a loop that never returns goes on seeing it not done.
C28_PollLoop ==
    /\ [](op.name = "upload_document"
            => /\ op.not_done_seen < MaxPolls
                    => op.gets = (IF pc = "get" THEN op.not_done_seen - 1 ELSE op.not_done_seen)
               /\ (pc = "returned" /\ op.operation # Absent)
                    => /\ op.operation[1].done \/ op.raised = "get"
                       /\ ret # Absent => op.operation[1].done /\ op.raised = "None"
               /\ pc = "get" => ~op.operation[1].done)
    /\ ((pc = "test" /\ op.operation[1].done) ~> (pc = "returned"))
    /\ (InLoop ~> (pc = "returned")) \/ <>[](InLoop /\ ~op.operation[1].done)

\* A call returned the handle of its document after the status was checked twice.
C28_Witness ==
    /\ op.name = "upload_document" /\ pc = "returned"
    /\ op.gets = 2 /\ op.not_done_seen = 2
    /\ ret = op.operation[1].document_name /\ ret # Absent

\* Two digits, zero-padded; a number of three digits or more is written in full.
TwoDigits(n) == IF n < 100 THEN <<Digit(n \div 10), Digit(n % 10)>> ELSE Decimal(n)

\* C29: the timestamp of an offset of s whole seconds (and any fraction) is MM:SS
\* under 3600 and HH:MM:SS from there on, of s div 3600, (s mod 3600) div 60 and
\* s mod 60, each zero-padded to two digits.
C29_TimestampFormat ==
    /\ (op.name = "format_timestamp")
          => LET s == op.seconds \div 10
                 hh == TwoDigits(s \div 3600)
                 mm == TwoDigits((s % 3600) \div 60)
                 ss == TwoDigits(s % 60)
             IN  op.ret = IF s < 3600 THEN mm \o <<":">> \o ss
                          ELSE hh \o <<":">> \o mm \o <<":">> \o ss
    /\ format_timestamp(Seconds(0, 0)) = <<"0", "0", ":", "0", "0">>
    /\ format_timestamp(Seconds(3599, 0)) = <<"5", "9", ":", "5", "9">>
    /\ format_timestamp(Seconds(3600, 0)) = <<"0", "1", ":", "0", "0", ":", "0", "0">>
    /\ format_timestamp(Seconds(7384, 0)) = <<"0", "2", ":", "0", "3", ":", "0", "4">>

\* An offset past the hour, with a fraction, was formatted.
C29_Witness ==
    /\ op.name = "format_timestamp"
    /\ op.seconds = Seconds(7384, 9)
    /\ op.ret = <<"0", "2", ":", "0", "3", ":", "0", "4">>

\* The text C30 describes: the first n segments, each as "[<timestamp>] <text>", with
\* a newline between one and the next.
RECURSIVE Rendered(_, _)
Rendered(transcript, n) ==
    LET entry == <<"[">> \o format_timestamp(transcript[n].start) \o <<"]", " ">> \o transcript[n].text IN
    IF n = 0 THEN <<>>
    ELSE IF n = 1 THEN entry
    ELSE Rendered(transcript, n - 1) \o <<"\n">> \o entry

\* C30: format_transcript gives one "[<timestamp>] <text>" per segment, joined by
\* newlines, in the order of the segments, and the empty text for no segments.
C30_TranscriptOrderPreserved ==
    (op.name = "format_transcript")
        => /\ op.ret = Rendered(op.transcript, Len(op.transcript))
           /\ op.transcript = <<>> => op.ret = <<>>
           /\ Cardinality({k \in 1..Len(op.ret) : op.ret[k] = "["}) = Len(op.transcript)

\* Two segments whose offsets go down were formatted, in the order given.
C30_Witness ==
    /\ op.name = "format_transcript"
    /\ Len(op.transcript) = 2
    /\ op.transcript[1].start > op.transcript[2].start
    /\ op.transcript[1].text # op.transcript[2].text
    /\ op.ret = <<"[">> \o format_timestamp(op.transcript[1].start) \o <<"]", " ">> \o op.transcript[1].text
                  \o <<"\n">>
                  \o <<"[">> \o format_timestamp(op.transcript[2].start) \o <<"]", " ">> \o op.transcript[2].text

\* The step attempts videos[i], and the attempt fails.
FailedAttempt ==
    /\ ReachesVideo
    /\ Len(log') = Len(log) + 1
    /\ log'[Len(log')].outcome \in Failures

\* The step attempts videos[i], and the attempt succeeds.
SuccessfulAttempt ==
    /\ ReachesVideo
    /\ Len(log') = Len(log) + 1
    /\ log'[Len(log')].outcome = "processed"

\* C32: in a run with skip_existing false, every video the loop reaches is handed to
\* _process_single_video (its first stage call is made) whatever the state holds, no
\* video is counted as skipped, and at the summary every video of the playlist has been
\* attempted, in order.
C32_ReprocessMode ==
    /\ [][ (ReachesVideo /\ ~skip_existing)
            => (/\ skipped_count' = skipped_count
                /\ Len(calls') > Len(calls)
                /\ calls'[Len(calls) + 1] = <<"transcript", videos[i]>>) ]_vars
    /\ []((~skip_existing /\ pc \in {"loop", "save", "done"}) => skipped_count = 0)
    /\ []((~skip_existing /\ pc = "done")
            => /\ Len(log) = Len(videos)
               /\ \A k \in 1..Len(log) : log[k].v = videos[k] /\ log[k].outcome # "skipped")

\* A run with skip_existing false attempted the one video of its playlist although the
\* state counts it as processed.
C32_Witness ==
    /\ pc = "done" /\ ~skip_existing /\ skipped_count = 0
    /\ Len(videos) = 1
    /\ log[1].outcome # "skipped"
    /\ is_processed(state[1], videos[1])
    /\ ~fresh

\* C34: at every iteration boundary the three counters add up to the number of videos
\* handled so far, a handled video adds exactly 1 to exactly one of them, and at the
\* summary they add up to the number of videos of the playlist.
C34_CounterConservation ==
    /\ [](pc \in {"loop", "save"} => processed_count + skipped_count + failed_count = i - 1)
    /\ [](pc = "done" => processed_count + skipped_count + failed_count = Len(videos))
    /\ [][ (pc \in {"loop", "save"} /\ i' = i + 1)
            => LET dp == processed_count' - processed_count
                   ds == skipped_count' - skipped_count
                   df == failed_count' - failed_count
               IN  /\ {dp, ds, df} = {0, 1}
                   /\ dp + ds + df = 1 ]_vars

\* A run over two videos ended with one skipped and one failed.
C34_Witness ==
    /\ pc = "done" /\ Len(videos) = 2
    /\ skipped_count = 1 /\ failed_count = 1 /\ processed_count = 0

\* C36: a failed attempt changes the state object only in failed_videos[video_id] and
\* last_updated: the processed map is as before, and a video that was is-processed
\* still is.
C36_FailedAttemptKeepsProcessed ==
    [][ FailedAttempt
        => LET v == videos[i] IN
           /\ v \in DOMAIN state'[1].failed_videos
           /\ state'[1] = [state[1] EXCEPT !.failed_videos = Put(@, v, state'[1].failed_videos[v]),
                                           !.last_updated = state'[1].last_updated]
           /\ state'[1].processed_videos = state[1].processed_videos
           /\ is_processed(state[1], v) => is_processed(state'[1], v) ]_vars

\* A reprocessing attempt of a video with a success record failed and was saved: the
\* file holds the success record and the ledger entry.
C36_Witness ==
    /\ pc = "done" /\ ~skip_existing /\ Len(videos) = 1
    /\ log[1].outcome \in Failures
    /\ load(file).ret = state
    /\ videos[1] \in DOMAIN state[1].processed_videos
    /\ state[1].processed_videos[videos[1]].error = None
    /\ videos[1] \in DOMAIN state[1].failed_videos

SuccessRecords(st) ==
    \A v \in DOMAIN st.processed_videos :
        /\ st.processed_videos[v].error = None
        /\ st.processed_videos[v].video_id = v
        /\ st.processed_videos[v].gemini_file_name = <<"youtube-", v>>

\* The step is an attempt at videos[i] in which the three clients, called in order,
\* each returned something usable.
AllStagesUsable ==
    /\ calls' = calls \o << <<"transcript", videos[i]>>, <<"rewrite", videos[i]>>, <<"upload", videos[i]>> >>
    /\ \E transcript \in TranscriptResults \ {Absent, Some(<<>>)},
          transformed \in TransformResults \ {Absent, Some(<<>>)},
          file_name \in {n \in UploadResults : Truthy(n)}, save_ok \in BOOLEAN :
            ProcessVideo(transcript, transformed, file_name, save_ok)

\* The state was created by a run of the pipeline: the states that were there before
\* the first run carry the creation time 0, and a run reads the clock later than that.
FromFreshState(st) == st.created_at > 0

\* C35: in a state that a run created fresh, in memory and in the state file, every
\* record of the processed map has a null error, its video's id as key and
\* youtube-<video_id> as document name, and a step of a run puts a record into the map
\* only when the transcript fetch, the rewrite and the upload all returned something
\* usable, in that order.
C35_SuccessRecordImpliesUpload ==
    /\ []((state # Absent /\ FromFreshState(state[1])) => SuccessRecords(state[1]))
    /\ []((load(file).ret # Absent /\ FromFreshState(load(file).ret[1]))
            => SuccessRecords(load(file).ret[1]))
    /\ [][ (state # Absent /\ state' # Absent /\ run' = run
              /\ state'[1].processed_videos # state[1].processed_videos)
           => AllStagesUsable ]_vars

\* A run that started without a state file has saved a success record.
C35_Witness ==
    /\ fresh /\ pc = "done"
    /\ load(file).ret = state
    /\ \E v \in DOMAIN state[1].processed_videos : state[1].processed_videos[v].error = None
    /\ calls # <<>> /\ calls[Len(calls)][1] = "upload"

\* The persisted state: what load() gives for the file; while save() is writing the
\* file, the state being written.
PersistedState == IF pc = "save" THEN state ELSE load(file).ret

PersistedProcessed(v) ==
    LET persisted == PersistedState IN persisted # Absent /\ is_processed(persisted[1], v)

C39_StoreBindingConsistent ==
    (op.name = "process" /\ op.outcome = "loop")
        => op.file_search_store = Some(op.state[1].file_search_store_name)

\* C33: when upload_document has returned, a temporary file it made is gone, and it
\* made none when it found an existing document.
C33_TemporaryFileCleanup ==
    (op.name = "upload_document" /\ pc = "returned")
        => /\ op.tmp # "exists"
           /\ (op.uploads = 0 /\ ret # Absent) => op.tmp = "none"

\* The state file of run p's playlist lacks something p has saved.
LostUpdate(p) ==
    /\ runs[p].pc # "idle"
    /\ LET st == load(StateFile(state_dir, get_state_path(runs[p].playlist_id))).ret IN
       \E e \in runs[p].saved :
          \/ st = Absent
          \/ e[2] = "processed" /\ e[1] \notin DOMAIN st[1].processed_videos
          \/ e[2] = "failed" /\ e[1] \notin DOMAIN st[1].failed_videos

\* C31: a run loses something it saved only to another run on the same playlist
\* identifier, and a step of a run changes no state file but the one of its playlist;
\* that such a loss does happen is what the witness shows.
C31_ConcurrentRunsRace ==
    /\ [](\A p \in Procs :
            LostUpdate(p) => \E q \in Procs \ {p} :
                                /\ runs[q].pc # "idle"
                                /\ runs[q].playlist_id = runs[p].playlist_id)
    /\ [][ \A path \in DOMAIN state_dir' :
              StateFile(state_dir, path) # state_dir'[path]
                 => /\ op'.name = "save"
                    /\ runs[op'.by].pc = "loop"
                    /\ get_state_path(runs[op'.by].playlist_id) = path ]_vars

\* Two runs on one playlist have ended, and the state file lacks the success record
\* one of them saved.
C31_Witness ==
    /\ \A p \in Procs : runs[p].pc = "done"
    /\ \E p \in Procs : LostUpdate(p) /\ \E e \in runs[p].saved : e[2] = "processed"
    /\ \E p, q \in Procs : p # q /\ runs[p].playlist_id = runs[q].playlist_id
====
